---- MODULE Spec2Model ----
(***************************************************************************)
(* A model of the fpstudy precision layer: the 8-bit P3109 codec           *)
(* (formats/quantize.hpp), the P3109Number wrapper type                    *)
(* (formats/precision.hpp) and the iterative kernels                      *)
(* (algorithms/gradient_descent.hpp, algorithms/newton.hpp).              *)
(*                                                                         *)
(* A 32-bit float is modelled exactly, as a record                         *)
(*     [cls, neg, sig, ex]                                                 *)
(* cls is "nan", "inf", "zero" or "fin"; a finite nonzero value is         *)
(* (-1)^neg * sig * 2^ex with sig odd, so equal values are equal records.  *)
(***************************************************************************)
EXTENDS Integers, Sequences, FiniteSets

VARIABLES
    \* the codec applied to one input
    pc, x, code, y, code2,
    \* one P3109Number object and the static policy flag
    value_, accumulate_in_fp32_, wide, steps, orig, negs, policy, other_value_,
    \* one run of an iterative kernel over P3109Number
    kernel, inst, xs, iter, status, result, trace,
    \* one call of matmul_square or fir_filter
    call, args, cell_i, cell_j, out, returned,
    \* one CsvWriter and its file, and one run of the experiment driver
    io_pc, csv_file, header_written_, thrown, calls,
    config, exp_i, entry_i, parsed, run_i

codecVars == <<pc, x, code, y, code2>>
numberVars ==
    <<value_, accumulate_in_fp32_, wide, steps, orig, negs, policy, other_value_>>
iterVars == <<kernel, inst, xs, iter, status, result, trace>>
reduceVars == <<call, args, cell_i, cell_j, out, returned>>
ioVars ==
    <<io_pc, csv_file, header_written_, thrown, calls,
      config, exp_i, entry_i, parsed, run_i>>
vars == <<codecVars, numberVars, iterVars, reduceVars, ioVars>>

----------------------------------------------------------------------------
(* Bounds of the model *)

\* Finite inputs of the codec have at most SigBits significant bits.
SigBits == 7
\* Input exponents run ExpMargin binades below and above the range that
\* dequantize can return.
ExpMargin == 2
\* Operators applied to one P3109Number in a chain.
MaxOps == 2
\* The largest dimension of a matrix of equal entries.
MaxDim == 4
\* The number of taps and of samples of the long FIR calls.
MaxTaps == 16
\* The largest max_iters an iterative kernel is run with.
MaxIters == 3

----------------------------------------------------------------------------
(* IEEE-754 binary32 values *)

\* frexp exponent of FLT_MAX and of the smallest subnormal FLT_TRUE_MIN
FLT_MAX_EXP == 128
FLT_TRUE_MIN_EXP == -148
\* significand width of a float
FLT_MANT_DIG == 24

Pow2(n) == 2 ^ n

Min(a, b) == IF a < b THEN a ELSE b

RECURSIVE BitLen(_)
BitLen(n) == IF n = 0 THEN 0 ELSE 1 + BitLen(n \div 2)

RECURSIVE TrailingZeros(_)
TrailingZeros(n) == IF n % 2 = 1 THEN 0 ELSE 1 + TrailingZeros(n \div 2)

NaN == [cls |-> "nan", neg |-> FALSE, sig |-> 0, ex |-> 0]
Inf(neg) == [cls |-> "inf", neg |-> neg, sig |-> 0, ex |-> 0]
Zero(neg) == [cls |-> "zero", neg |-> neg, sig |-> 0, ex |-> 0]

\* (-1)^neg * n * 2^e, n > 0, as the record with an odd significand
Fin(neg, n, e) ==
    LET z == TrailingZeros(n)
    IN [cls |-> "fin", neg |-> neg, sig |-> n \div Pow2(z), ex |-> e + z]

MkFloat(neg, n, e) == IF n = 0 THEN Zero(neg) ELSE Fin(neg, n, e)

isnan(v) == v.cls = "nan"
isinf(v) == v.cls = "inf"
isfinite(v) == v.cls \in {"zero", "fin"}
signbit(v) == v.neg
fabs(v) == [v EXCEPT !.neg = FALSE]
fneg(v) == IF isnan(v) THEN v ELSE [v EXCEPT !.neg = ~v.neg]

\* std::frexp(abs_v, &exp) for finite nonzero abs_v: abs_v = mant * 2^exp
\* with mant in [0.5, 1).  The mantissa is returned as the fraction
\* num / den with den = 2^BitLen(sig).
frexp_exp(v) == v.ex + BitLen(v.sig)
frexp_mant(v) == [num |-> v.sig, den |-> Pow2(BitLen(v.sig))]

\* std::ldexp(m / 16, e) for an integer m > 0
ldexp(m, den, e) == Fin(FALSE, m, e - (BitLen(den) - 1))

\* std::round of the nonnegative fraction num / den: to nearest, halves
\* away from zero
\* (variant: truncation in place of std::round)
round_trunc(num, den) == num \div den
round(num, den) == (2 * num + den) \div (2 * den)

\* Magnitude order of two finite values
MagLt(a, b) ==
    IF b.cls = "zero" THEN FALSE
    ELSE IF a.cls = "zero" THEN TRUE
    ELSE LET ta == a.ex + BitLen(a.sig)
             tb == b.ex + BitLen(b.sig)
             m == Min(a.ex, b.ex)
         IN IF ta # tb THEN ta < tb
            ELSE a.sig * Pow2(a.ex - m) < b.sig * Pow2(b.ex - m)

\* a < b on finite values (the two zeros are equal)
FLt(a, b) ==
    LET an == a.cls = "fin" /\ a.neg
        bn == b.cls = "fin" /\ b.neg
    IN IF an /\ ~bn THEN b.cls = "fin" \/ a.cls = "fin"
       ELSE IF ~an /\ bn THEN FALSE
       ELSE IF an THEN MagLt(b, a)
       ELSE MagLt(a, b)

\* numeric equality of finite values (0.0f == -0.0f)
FEq(a, b) == ~FLt(a, b) /\ ~FLt(b, a)

\* a < b on any two values: false with a NaN operand
\* (variant: an unordered comparison counts as less)
fless_unordered(a, b) ==
    IF isnan(a) \/ isnan(b) THEN TRUE
    ELSE IF isinf(a) THEN a.neg /\ ~(isinf(b) /\ b.neg)
    ELSE IF isinf(b) THEN ~b.neg
    ELSE FLt(a, b)

fless(a, b) ==
    IF isnan(a) \/ isnan(b) THEN FALSE
    ELSE IF isinf(a) THEN a.neg /\ ~(isinf(b) /\ b.neg)
    ELSE IF isinf(b) THEN ~b.neg
    ELSE FLt(a, b)

\* a value n * 2^e rounded to the 24-bit significand of a float, to nearest,
\* ties to even
RoundFloat(neg, n, e) ==
    IF BitLen(n) <= FLT_MANT_DIG THEN MkFloat(neg, n, e)
    ELSE LET sh == BitLen(n) - FLT_MANT_DIG
             q == n \div Pow2(sh)
             r == n % Pow2(sh)
             half == Pow2(sh - 1)
             up == r > half \/ (r = half /\ q % 2 = 1)
         IN Fin(neg, IF up THEN q + 1 ELSE q, e + sh)

\* the integer a / 2^m of a finite value a
ScaledInt(a, m) ==
    IF a.cls = "zero" THEN 0
    ELSE (IF a.neg THEN -1 ELSE 1) * a.sig * Pow2(a.ex - m)

\* a + b in binary32.  The operands of the model are far from FLT_MAX and
\* from the subnormal range, so no sum overflows or underflows.
FAdd(a, b) ==
    IF isnan(a) \/ isnan(b) THEN NaN
    ELSE IF isinf(a) /\ isinf(b) THEN (IF a.neg = b.neg THEN a ELSE NaN)
    ELSE IF isinf(a) THEN a
    ELSE IF isinf(b) THEN b
    ELSE IF a.cls = "zero" /\ b.cls = "zero" THEN Zero(a.neg /\ b.neg)
    ELSE IF a.cls = "zero" THEN b
    ELSE IF b.cls = "zero" THEN a
    ELSE LET m == Min(a.ex, b.ex)
             s == ScaledInt(a, m) + ScaledInt(b, m)
         IN IF s = 0 THEN Zero(FALSE)
            ELSE RoundFloat(s < 0, IF s < 0 THEN -s ELSE s, m)

FSub(a, b) == FAdd(a, fneg(b))

\* a * b in binary32
FMul(a, b) ==
    IF isnan(a) \/ isnan(b) THEN NaN
    ELSE IF (isinf(a) /\ b.cls = "zero") \/ (a.cls = "zero" /\ isinf(b)) THEN NaN
    ELSE IF isinf(a) \/ isinf(b) THEN Inf(a.neg # b.neg)
    ELSE IF a.cls = "zero" \/ b.cls = "zero" THEN Zero(a.neg # b.neg)
    ELSE RoundFloat(a.neg # b.neg, a.sig * b.sig, a.ex + b.ex)

\* a / b in binary32: the quotient to 26 bits and a sticky bit, rounded
FDiv(a, b) ==
    IF isnan(a) \/ isnan(b) THEN NaN
    ELSE IF isinf(a) /\ isinf(b) THEN NaN
    ELSE IF a.cls = "zero" /\ b.cls = "zero" THEN NaN
    ELSE IF isinf(a) \/ b.cls = "zero" THEN Inf(a.neg # b.neg)
    ELSE IF a.cls = "zero" \/ isinf(b) THEN Zero(a.neg # b.neg)
    ELSE LET k == FLT_MANT_DIG + 1 + BitLen(b.sig) - BitLen(a.sig)
             n == (a.sig * Pow2(k)) \div b.sig
             sticky == IF (a.sig * Pow2(k)) % b.sig = 0 THEN 0 ELSE 1
         IN RoundFloat(a.neg # b.neg, 2 * n + sticky, a.ex - b.ex - k - 1)

----------------------------------------------------------------------------
(* Natural numbers wider than 31 bits: the significand of a double is 53    *)
(* bits and a product of two is 106.  A number is the sequence of its       *)
(* base-4096 digits, least significant first, with no leading zero digit;   *)
(* zero is the empty sequence.                                              *)

Limb == Pow2(12)

RECURSIVE BStrip(_)
BStrip(a) ==
    IF a = <<>> THEN a
    ELSE IF a[Len(a)] = 0 THEN BStrip(SubSeq(a, 1, Len(a) - 1))
    ELSE a

RECURSIVE BFromInt(_)
BFromInt(n) == IF n = 0 THEN <<>> ELSE <<n % Limb>> \o BFromInt(n \div Limb)

BLimb(a, i) == IF i <= Len(a) THEN a[i] ELSE 0

RECURSIVE BAddFrom(_, _, _, _)
BAddFrom(a, b, i, c) ==
    IF i > Len(a) /\ i > Len(b) THEN (IF c = 0 THEN <<>> ELSE <<c>>)
    ELSE LET t == BLimb(a, i) + BLimb(b, i) + c
         IN <<t % Limb>> \o BAddFrom(a, b, i + 1, t \div Limb)

BAdd(a, b) == BAddFrom(a, b, 1, 0)

\* a - b for a >= b
RECURSIVE BSubFrom(_, _, _, _)
BSubFrom(a, b, i, c) ==
    IF i > Len(a) THEN <<>>
    ELSE LET t == a[i] - BLimb(b, i) - c
         IN IF t < 0 THEN <<t + Limb>> \o BSubFrom(a, b, i + 1, 1)
            ELSE <<t>> \o BSubFrom(a, b, i + 1, 0)

BSub(a, b) == BStrip(BSubFrom(a, b, 1, 0))

\* a < b, compared from the most significant digit
RECURSIVE BLtFrom(_, _, _)
BLtFrom(a, b, i) ==
    IF i = 0 THEN FALSE
    ELSE IF a[i] # b[i] THEN a[i] < b[i]
    ELSE BLtFrom(a, b, i - 1)

BLt(a, b) ==
    IF Len(a) # Len(b) THEN Len(a) < Len(b) ELSE BLtFrom(a, b, Len(a))

\* a * d for one digit d
RECURSIVE BMulSmallFrom(_, _, _, _)
BMulSmallFrom(a, d, i, c) ==
    IF i > Len(a) THEN (IF c = 0 THEN <<>> ELSE <<c>>)
    ELSE LET t == a[i] * d + c
         IN <<t % Limb>> \o BMulSmallFrom(a, d, i + 1, t \div Limb)

BMulSmall(a, d) == BStrip(BMulSmallFrom(a, d, 1, 0))

BShiftLimb(a) == IF a = <<>> THEN a ELSE <<0>> \o a

RECURSIVE BMul(_, _)
BMul(a, b) ==
    IF b = <<>> THEN <<>>
    ELSE BAdd(BMulSmall(a, b[1]), BShiftLimb(BMul(a, Tail(b))))

\* a * 2^k
RECURSIVE BShl(_, _)
BShl(a, k) ==
    IF k >= 12 THEN BShiftLimb(BShl(a, k - 12)) ELSE BMulSmall(a, Pow2(k))

\* floor(a / d) for one digit d: the remainder carried down from the most
\* significant digit
RECURSIVE BDivRem(_, _, _)
BDivRem(a, d, i) ==
    IF i > Len(a) THEN 0 ELSE (BDivRem(a, d, i + 1) * Limb + a[i]) % d

BDivSmall(a, d) ==
    BStrip([i \in 1 .. Len(a) |-> (BDivRem(a, d, i + 1) * Limb + a[i]) \div d])

\* floor(a / 2^k)
RECURSIVE BShr(_, _)
BShr(a, k) ==
    IF a = <<>> THEN a
    ELSE IF k >= 12 THEN BShr(Tail(a), k - 12)
    ELSE BDivSmall(a, Pow2(k))

BBitLen(a) == IF a = <<>> THEN 0 ELSE 12 * (Len(a) - 1) + BitLen(a[Len(a)])

\* bit i of a, bit 0 the least significant
BBit(a, i) == (BLimb(a, i \div 12 + 1) \div Pow2(i % 12)) % 2

\* the low k bits of a are all zero
RECURSIVE BLowZero(_, _)
BLowZero(a, k) ==
    IF a = <<>> \/ k = 0 THEN TRUE
    ELSE IF k >= 12 THEN a[1] = 0 /\ BLowZero(Tail(a), k - 12)
    ELSE a[1] % Pow2(k) = 0

\* the number of trailing zero bits of a # 0
RECURSIVE BTrailingZeros(_)
BTrailingZeros(a) ==
    IF a[1] = 0 THEN 12 + BTrailingZeros(Tail(a)) ELSE TrailingZeros(a[1])

\* quotient and remainder of a by b # 0: binary long division.  The bits of
\* a above bit i have been divided, with quotient p.q and remainder p.r < b.
RECURSIVE BDivModFrom(_, _, _, _)
BDivModFrom(a, b, i, p) ==
    IF i < 0 THEN p
    ELSE LET r2 == BAdd(BShl(p.r, 1), BFromInt(BBit(a, i)))
             q2 == BShl(p.q, 1)
         IN IF BLt(r2, b)
            THEN BDivModFrom(a, b, i - 1, [q |-> q2, r |-> r2])
            ELSE BDivModFrom(a, b, i - 1,
                             [q |-> BAdd(q2, <<1>>), r |-> BSub(r2, b)])

\* the leading BBitLen(b) - 1 bits of a are below b: they are the first
\* remainder
BDivMod(a, b) ==
    LET n == BBitLen(a)
        h == BBitLen(b) - 1
    IN IF n <= h THEN [q |-> <<>>, r |-> a]
       ELSE BDivModFrom(a, b, n - h - 1, [q |-> <<>>, r |-> BShr(a, n - h)])

----------------------------------------------------------------------------
(* IEEE-754 binary64 values: the record of a float with the significand a   *)
(* wide natural number.  The values of the model are far from DBL_MAX and   *)
(* from the subnormal range, so no operation overflows or underflows.       *)

\* significand width of a double
DBL_MANT_DIG == 53

DNaN == [cls |-> "nan", neg |-> FALSE, sig |-> <<>>, ex |-> 0]
DInf(neg) == [cls |-> "inf", neg |-> neg, sig |-> <<>>, ex |-> 0]
DZero(neg) == [cls |-> "zero", neg |-> neg, sig |-> <<>>, ex |-> 0]

\* (-1)^neg * n * 2^e for a wide n # 0, as the record with an odd significand
DFin(neg, n, e) ==
    LET z == BTrailingZeros(n)
    IN [cls |-> "fin", neg |-> neg, sig |-> BShr(n, z), ex |-> e + z]

DMk(neg, n, e) == IF n = <<>> THEN DZero(neg) ELSE DFin(neg, n, e)

\* the double of a small integer literal: 4.0, -1.0, 2.0, 3.0, ...
DInt(k) ==
    IF k = 0 THEN DZero(FALSE)
    ELSE DFin(k < 0, BFromInt(IF k < 0 THEN -k ELSE k), 0)

\* static_cast<double>(float): exact
DFromFloat(v) ==
    IF v.cls = "fin" THEN DFin(v.neg, BFromInt(v.sig), v.ex)
    ELSE [v EXCEPT !.sig = <<>>]

Dfabs(v) == [v EXCEPT !.neg = FALSE]
Dneg(v) == IF v.cls = "nan" THEN v ELSE [v EXCEPT !.neg = ~v.neg]

\* n * 2^e rounded to a 53-bit significand, to nearest, ties to even
DRound(neg, n, e) ==
    IF BBitLen(n) <= DBL_MANT_DIG THEN DMk(neg, n, e)
    ELSE LET sh == BBitLen(n) - DBL_MANT_DIG
             q == BShr(n, sh)
             half == BBit(n, sh - 1) = 1
             sticky == ~BLowZero(n, sh - 1)
             up == half /\ (sticky \/ BBit(q, 0) = 1)
         IN DFin(neg, IF up THEN BAdd(q, <<1>>) ELSE q, e + sh)

\* |a| < |b| for finite a, b
DMagLt(a, b) ==
    IF b.cls = "zero" THEN FALSE
    ELSE IF a.cls = "zero" THEN TRUE
    ELSE LET ta == a.ex + BBitLen(a.sig)
             tb == b.ex + BBitLen(b.sig)
             m == Min(a.ex, b.ex)
         IN IF ta # tb THEN ta < tb
            ELSE BLt(BShl(a.sig, a.ex - m), BShl(b.sig, b.ex - m))

\* a < b on doubles: false with a NaN operand
DLt(a, b) ==
    IF a.cls = "nan" \/ b.cls = "nan" THEN FALSE
    ELSE IF a.cls = "inf" THEN a.neg /\ ~(b.cls = "inf" /\ b.neg)
    ELSE IF b.cls = "inf" THEN ~b.neg
    ELSE LET an == a.cls = "fin" /\ a.neg
             bn == b.cls = "fin" /\ b.neg
         IN IF an /\ ~bn THEN TRUE
            ELSE IF ~an /\ bn THEN FALSE
            ELSE IF an THEN DMagLt(b, a)
            ELSE DMagLt(a, b)

\* a + b in binary64
DAdd(a, b) ==
    IF a.cls = "nan" \/ b.cls = "nan" THEN DNaN
    ELSE IF a.cls = "inf" /\ b.cls = "inf" THEN (IF a.neg = b.neg THEN a ELSE DNaN)
    ELSE IF a.cls = "inf" THEN a
    ELSE IF b.cls = "inf" THEN b
    ELSE IF a.cls = "zero" /\ b.cls = "zero" THEN DZero(a.neg /\ b.neg)
    ELSE IF a.cls = "zero" THEN b
    ELSE IF b.cls = "zero" THEN a
    ELSE LET m == Min(a.ex, b.ex)
             sa == BShl(a.sig, a.ex - m)
             sb == BShl(b.sig, b.ex - m)
         IN IF a.neg = b.neg THEN DRound(a.neg, BAdd(sa, sb), m)
            ELSE IF sa = sb THEN DZero(FALSE)
            ELSE IF BLt(sa, sb) THEN DRound(b.neg, BSub(sb, sa), m)
            ELSE DRound(a.neg, BSub(sa, sb), m)

DSub(a, b) == DAdd(a, Dneg(b))

\* a * b in binary64
DMul(a, b) ==
    IF a.cls = "nan" \/ b.cls = "nan" THEN DNaN
    ELSE IF (a.cls = "inf" /\ b.cls = "zero") \/ (a.cls = "zero" /\ b.cls = "inf")
         THEN DNaN
    ELSE IF a.cls = "inf" \/ b.cls = "inf" THEN DInf(a.neg # b.neg)
    ELSE IF a.cls = "zero" \/ b.cls = "zero" THEN DZero(a.neg # b.neg)
    ELSE DRound(a.neg # b.neg, BMul(a.sig, b.sig), a.ex + b.ex)

\* a / b in binary64: the quotient to 55 bits and a sticky bit, rounded
DDiv(a, b) ==
    IF a.cls = "nan" \/ b.cls = "nan" THEN DNaN
    ELSE IF a.cls = "inf" /\ b.cls = "inf" THEN DNaN
    ELSE IF a.cls = "zero" /\ b.cls = "zero" THEN DNaN
    ELSE IF a.cls = "inf" \/ b.cls = "zero" THEN DInf(a.neg # b.neg)
    ELSE IF a.cls = "zero" \/ b.cls = "inf" THEN DZero(a.neg # b.neg)
    ELSE LET k == DBL_MANT_DIG + 1 + BBitLen(b.sig) - BBitLen(a.sig)
             d == BDivMod(BShl(a.sig, k), b.sig)
             sticky == IF d.r = <<>> THEN <<>> ELSE <<1>>
         IN DRound(a.neg # b.neg, BAdd(BShl(d.q, 1), sticky), a.ex - b.ex - k - 1)

\* std::sqrt(s) < tol for s >= 0 and a finite tol > 0.  sqrt is correctly
\* rounded, so the test holds exactly when sqrt(s) lies below the midpoint of
\* tol and the double before it, that is s < mid * mid (mid * mid is no
\* double, so there is no tie).
DSqrtLt(s, tol) ==
    IF s.cls = "nan" \/ s.cls = "inf" THEN FALSE
    ELSE IF s.cls = "zero" THEN TRUE
    ELSE LET w == DBL_MANT_DIG - BBitLen(tol.sig)
             t53 == BShl(tol.sig, w)
             pow2 == tol.sig = <<1>>
             mid == IF pow2 THEN BSub(BShl(t53, 2), <<1>>)
                    ELSE BSub(BShl(t53, 1), <<1>>)
             emid == tol.ex - w - (IF pow2 THEN 2 ELSE 1)
             sq == BMul(mid, mid)
             m == Min(s.ex, 2 * emid)
         IN BLt(BShl(s.sig, s.ex - m), BShl(sq, 2 * emid - m))

----------------------------------------------------------------------------
(* formats/quantize.hpp *)

\* struct P3109Layout
exponent_bits == 3
mantissa_bits == 4
exponent_bias == 3

\* a | b on 8-bit values
RECURSIVE BitOr(_, _)
BitOr(a, b) ==
    IF a = 0 THEN b
    ELSE IF b = 0 THEN a
    ELSE (IF a % 2 = 1 \/ b % 2 = 1 THEN 1 ELSE 0) + 2 * BitOr(a \div 2, b \div 2)

\* (variant: the top exponent is not reserved)
max_exp_top == Pow2(exponent_bits) - 1
max_exp == Pow2(exponent_bits) - 2
\* (variant: min_exp = 0, which lets exponent field 0 through)
min_exp_zero == 1 - 1
min_exp == 1
mantissa_mask == Pow2(mantissa_bits) - 1
exponent_mask == Pow2(exponent_bits) - 1

\* exp_val = exp + bias - 1
\* (variant: without the - 1 that aligns with frexp)
exp_val_unaligned(exp) == exp + exponent_bias
biased_exp(exp) == exp + exponent_bias - 1

\* (sign < 0 ? 0x80 : 0x00) | ((max_exp + 1) << mantissa_bits) - 1
\* (variant: overflow to the infinity code)
saturate_inf(neg) == IF neg THEN 254 ELSE 127
saturate(neg) ==
    BitOr(IF neg THEN 128 ELSE 0, (max_exp + 1) * Pow2(mantissa_bits) - 1)

\* flush to zero: std::signbit(value) ? 0x80 : 0x00
\* (variant: flush to 0x00 whatever the sign)
flush_unsigned(neg) == 0
flush(neg) == IF neg THEN 128 ELSE 0

\* scaled = mant * 2 - 1;  mantissa = (int) std::round(scaled * 16)
\* mant * 2 - 1 and the product by 16 are exact in binary32.
scaled_mantissa(mant) ==
    round((2 * mant.num - mant.den) * (mantissa_mask + 1), mant.den)

\* the rounding carry: mantissa > mantissa_mask
\* (variant: the mantissa that rounded up to 16 is packed as it is)
carry_unhandled(mantissa, exp_val) ==
    [mantissa |-> mantissa, exp_val |-> exp_val]

carry(mantissa, exp_val) ==
    IF mantissa > mantissa_mask
    THEN [mantissa |-> 0, exp_val |-> exp_val + 1]
    ELSE [mantissa |-> mantissa, exp_val |-> exp_val]

\* sign_bit | exponent_field | mantissa
pack(neg, exp_val, mantissa) ==
    LET sign_bit == IF neg THEN 128 ELSE 0
        exponent_field == (exp_val * Pow2(mantissa_bits)) % 256
    IN BitOr(BitOr(sign_bit, exponent_field), mantissa)

p3109_quantize(value) ==
    IF isnan(value) THEN 255
    ELSE IF isinf(value) THEN (IF ~signbit(value) THEN 127 ELSE 254)
    ELSE IF value.cls = "zero" THEN (IF signbit(value) THEN 128 ELSE 0)
    ELSE LET abs_v == fabs(value)
             exp == frexp_exp(abs_v)
             mant == frexp_mant(abs_v)
             exp_val == biased_exp(exp)
         IN IF exp_val > max_exp THEN saturate(signbit(value))
            ELSE IF exp_val < min_exp THEN flush(signbit(value))
            ELSE LET c == carry(scaled_mantissa(mant), exp_val)
                 IN IF c.exp_val > max_exp THEN saturate(signbit(value))
                    ELSE pack(signbit(value), c.exp_val, c.mantissa)

\* the fields of a code
sign_of(c) == c \div 128
exponent_of(c) == (c \div Pow2(mantissa_bits)) % (exponent_mask + 1)
\* (variant: the remainder by the mask instead of the bits under it)
mantissa_of_mask(c) == c % mantissa_mask
mantissa_of(c) == c % (mantissa_mask + 1)

\* code == 0xFE  (variant: 0xFF, shadowed by the NaN test)
decode_neg_inf_ff(c) == c = 255
decode_neg_inf(c) == c = 254

\* (variant: the exponent field taken without the bias)
decode_normal_nobias(negative, exponent, mantissa) ==
    LET v == ldexp(mantissa_mask + 1 + mantissa, mantissa_mask + 1, exponent)
    IN IF negative THEN fneg(v) ELSE v
\* mant = 1 + mantissa / 16;  value = ldexp(mant, exponent - bias)
decode_normal(negative, exponent, mantissa) ==
    LET v == ldexp(mantissa_mask + 1 + mantissa, mantissa_mask + 1,
                   exponent - exponent_bias)
    IN IF negative THEN fneg(v) ELSE v

p3109_dequantize(c) ==
    IF c = 255 THEN NaN
    ELSE IF c = 127 THEN Inf(FALSE)
    ELSE IF decode_neg_inf(c) THEN Inf(TRUE)
    ELSE LET negative == sign_of(c) # 0
             exponent == exponent_of(c)
             mantissa == mantissa_of(c)
         IN IF exponent = 0 THEN Zero(negative)
            ELSE decode_normal(negative, exponent, mantissa)

----------------------------------------------------------------------------
(* The codec applied to its inputs *)

Codes == 0 .. 255
ReservedCodes == {127, 254, 255}

\* every finite float of at most SigBits significant bits whose frexp
\* exponent is in the given set
FiniteOfExp(exps) ==
    { Fin(neg, n, e - SigBits) :
        neg \in BOOLEAN, n \in Pow2(SigBits - 1) .. Pow2(SigBits) - 1, e \in exps }

\* frexp exponents of the values dequantize returns: 2^(1-bias) .. < 2^(8-bias)
NearExps ==
    (2 - exponent_bias - ExpMargin) .. (Pow2(exponent_bits) - exponent_bias + ExpMargin)
FarExps == {FLT_TRUE_MIN_EXP + SigBits, FLT_MAX_EXP}

FloatInputs ==
    {NaN, Inf(FALSE), Inf(TRUE), Zero(FALSE), Zero(TRUE)}
    \cup FiniteOfExp(NearExps) \cup FiniteOfExp(FarExps)

CodecInit ==
    /\ \/ pc = "float" /\ x \in FloatInputs /\ code = 0
       \/ pc = "code" /\ x = Zero(FALSE) /\ code \in Codes
    /\ y = Zero(FALSE)
    /\ code2 = 0

CodecIdle ==
    /\ pc = "idle" /\ x = Zero(FALSE) /\ code = 0 /\ y = Zero(FALSE) /\ code2 = 0

\* code = p3109_quantize(x)
Quantize ==
    /\ pc = "float"
    /\ code' = p3109_quantize(x)
    /\ pc' = "quantized"
    /\ UNCHANGED <<x, y, code2, numberVars, iterVars, reduceVars, ioVars>>

\* y = p3109_dequantize(code)
Dequantize ==
    /\ pc \in {"quantized", "code"}
    /\ y' = p3109_dequantize(code)
    /\ pc' = IF pc = "quantized" THEN "roundtrip" ELSE "decoded"
    /\ UNCHANGED <<x, code, code2, numberVars, iterVars, reduceVars, ioVars>>

\* code2 = p3109_quantize(y)
Requantize ==
    /\ pc \in {"roundtrip", "decoded"}
    /\ code2' = p3109_quantize(y)
    /\ pc' = IF pc = "roundtrip" THEN "requantized" ELSE "recoded"
    /\ UNCHANGED <<x, code, y, numberVars, iterVars, reduceVars, ioVars>>

CodecNext == Quantize \/ Dequantize \/ Requantize

----------------------------------------------------------------------------
(* formats/precision.hpp: class P3109Number *)

\* lhs + rhs, lhs - rhs, lhs * rhs, lhs / rhs on floats
float_op(op, lhs, rhs) ==
    CASE op = "add" -> FAdd(lhs, rhs)
      [] op = "sub" -> FSub(lhs, rhs)
      [] op = "mul" -> FMul(lhs, rhs)
      [] op = "div" -> FDiv(lhs, rhs)

\* operator+=, -=, *=, /=: the new value_ of *this
\* (variant: a division by zero leaves *this alone)
compound_assign_guarded(op, this, other, flag) ==
    LET lhs == p3109_dequantize(this)
        rhs == p3109_dequantize(other)
        r == float_op(op, lhs, rhs)
        res == IF flag THEN r ELSE p3109_dequantize(p3109_quantize(r))
    IN IF op = "div" /\ rhs.cls = "zero" THEN this ELSE p3109_quantize(res)

\* (variant: without the flag the operands are requantized, not the result)
compound_assign_operands(op, this, other, flag) ==
    LET lhs == p3109_dequantize(this)
        rhs == p3109_dequantize(other)
        requantized(v) == p3109_dequantize(p3109_quantize(v))
        res == IF flag THEN float_op(op, lhs, rhs)
               ELSE float_op(op, requantized(lhs), requantized(rhs))
    IN p3109_quantize(res)

compound_assign(op, this, other, flag) ==
    LET lhs == p3109_dequantize(this)
        rhs == p3109_dequantize(other)
        r == float_op(op, lhs, rhs)
        res == IF flag THEN r ELSE p3109_dequantize(p3109_quantize(r))
    IN p3109_quantize(res)

\* operator-(): the value_ of the returned object
\* (variant: the minus sign dropped)
negate_identity(this) == p3109_quantize(p3109_dequantize(this))
negate(this) == p3109_quantize(fneg(p3109_dequantize(this)))

\* The codes a chain starts from: 0.0, 1.0, 8.0, -1.5, 16.0 and +infinity
StartCodes == {0, 48, 96, 184, 112, 127}
\* The operands a chain draws from: 0.0, -0.0, 0.25, 1.5, -1.0 and +infinity
OperandCodes == {0, 128, 16, 56, 176, 127}

\* P3109Number(uint8_t raw); accumulate_in_fp32_ = true
\* wide is the result of the same chain of operators on floats, with no
\* quantization in between; policy is the flag the chain has run under;
\* other_value_ is the right operand of the last compound assignment.
NumberInit(start) ==
    /\ value_ \in start
    /\ accumulate_in_fp32_ = TRUE
    /\ wide = p3109_dequantize(value_)
    /\ steps = 0
    /\ orig = value_
    /\ negs = 0
    /\ policy = "none"
    /\ other_value_ = 0

NumberIdle ==
    /\ value_ = 0 /\ accumulate_in_fp32_ = TRUE /\ wide = Zero(FALSE)
    /\ steps = 0 /\ orig = 0 /\ negs = 0 /\ policy = "none" /\ other_value_ = 0

policy_after(flag) ==
    LET p == IF flag THEN "fp32" ELSE "requantize"
    IN IF policy \in {"none", p} THEN p ELSE "mixed"

\* static void set_accumulate_fp32(bool flag)
SetAccumulate ==
    /\ \E flag \in BOOLEAN : accumulate_in_fp32_' = flag
    /\ UNCHANGED <<value_, wide, steps, orig, negs, policy, other_value_,
                   codecVars, iterVars, reduceVars, ioVars>>

Assign(op) ==
    /\ steps < MaxOps
    /\ \E other \in OperandCodes :
        /\ value_' = compound_assign(op, value_, other, accumulate_in_fp32_)
        /\ wide' = float_op(op, wide, p3109_dequantize(other))
        /\ other_value_' = other
    /\ steps' = steps + 1
    /\ negs' = -1
    /\ policy' = policy_after(accumulate_in_fp32_)
    /\ UNCHANGED <<accumulate_in_fp32_, orig, codecVars, iterVars, reduceVars, ioVars>>

AddAssign == Assign("add")
SubAssign == Assign("sub")
MulAssign == Assign("mul")
DivAssign == Assign("div")

\* v = -v
Negate ==
    /\ steps < MaxOps
    /\ value_' = negate(value_)
    /\ wide' = fneg(wide)
    /\ steps' = steps + 1
    /\ negs' = IF negs >= 0 THEN negs + 1 ELSE negs
    /\ UNCHANGED <<accumulate_in_fp32_, orig, policy, other_value_,
                   codecVars, iterVars, reduceVars, ioVars>>

NumberNext ==
    SetAccumulate \/ AddAssign \/ SubAssign \/ MulAssign \/ DivAssign \/ Negate

NegateNext == SetAccumulate \/ Negate

DivideNext == SetAccumulate \/ DivAssign

\* One operator on any pair of codes: v op= P3109Number(other) on a fresh v.
PairAssign(op) ==
    /\ steps = 0
    /\ \E other \in Codes :
        /\ value_' = compound_assign(op, value_, other, accumulate_in_fp32_)
        /\ wide' = float_op(op, wide, p3109_dequantize(other))
        /\ other_value_' = other
    /\ steps' = steps + 1
    /\ negs' = -1
    /\ policy' = policy_after(accumulate_in_fp32_)
    /\ UNCHANGED <<accumulate_in_fp32_, orig, codecVars, iterVars, reduceVars, ioVars>>

PairAdd == PairAssign("add")
PairSub == PairAssign("sub")
PairMul == PairAssign("mul")
PairDiv == PairAssign("div")

\* the later operators of a chain that started on codes of the chain sets
ChainAssign(op) ==
    /\ steps >= 1
    /\ orig \in StartCodes /\ other_value_ \in OperandCodes
    /\ Assign(op)

ChainAdd == ChainAssign("add")
ChainSub == ChainAssign("sub")
ChainMul == ChainAssign("mul")
ChainDiv == ChainAssign("div")

\* set_accumulate_fp32 before the first operator and between those of a chain
PairSetAccumulate ==
    /\ steps = 0 \/ (orig \in StartCodes /\ other_value_ \in OperandCodes)
    /\ SetAccumulate

PairNext ==
    \/ PairSetAccumulate
    \/ PairAdd \/ PairSub \/ PairMul \/ PairDiv
    \/ ChainAdd \/ ChainSub \/ ChainMul \/ ChainDiv

----------------------------------------------------------------------------
(* algorithms/gradient_descent.hpp and algorithms/newton.hpp, T = P3109Number *)

\* T + T, T - T, T * T, T / T and T(double)
t_add(a, b) == compound_assign("add", a, b, accumulate_in_fp32_)
t_sub(a, b) == compound_assign("sub", a, b, accumulate_in_fp32_)
t_mul(a, b) == compound_assign("mul", a, b, accumulate_in_fp32_)
t_div(a, b) == compound_assign("div", a, b, accumulate_in_fp32_)
t_from_double(v) == p3109_quantize(v)

\* acc = acc + Q[i * dim + j] * x[j] for j < n, from T acc{}
RECURSIVE gd_acc(_, _, _, _)
gd_acc(in, v, i, n) ==
    IF n = 0 THEN 0
    ELSE t_add(gd_acc(in, v, i, n - 1), t_mul(in.Q[(i - 1) * in.dim + n], v[n]))

\* gradient[i] = acc + b[i]
gd_gradient(in, v) ==
    [i \in 1 .. in.dim |-> t_add(gd_acc(in, v, i, in.dim), in.b[i])]

\* grad_norm += gd * gd over the first n components, in double (exact for
\* the values of the 8-bit type)
RECURSIVE gd_sumsq(_, _)
gd_sumsq(g, n) ==
    IF n = 0 THEN Zero(FALSE)
    ELSE LET gd == p3109_dequantize(g[n])
         IN FAdd(gd_sumsq(g, n - 1), FMul(gd, gd))

\* std::sqrt(grad_norm) < opts.tol, decided on the squares: the sum and
\* tol * tol are exact
gd_converged(in, v) ==
    LET g == gd_gradient(in, v)
    IN fless(gd_sumsq(g, in.dim), FMul(in.tol, in.tol))

\* x[i] = x[i] - T(opts.step_size) * gradient[i]
\* (variant: the step size multiplied in 32-bit, the product converted)
gd_update_unconverted(in, v) ==
    LET g == gd_gradient(in, v)
    IN [i \in 1 .. in.dim |->
          t_sub(v[i], t_from_double(FMul(in.step_size, p3109_dequantize(g[i]))))]

gd_update(in, v) ==
    LET g == gd_gradient(in, v)
    IN [i \in 1 .. in.dim |-> t_sub(v[i], t_mul(t_from_double(in.step_size), g[i]))]

\* one pass of the loop body of gradient_descent_quadratic
\* (variant: the update applied before the return)
gd_body_update_first(in, v) ==
    [ret |-> gd_converged(in, v), converged |-> TRUE, x |-> gd_update(in, v)]
gd_body(in, v) ==
    IF gd_converged(in, v)
    THEN [ret |-> TRUE, converged |-> TRUE, x |-> v]
    ELSE [ret |-> FALSE, converged |-> FALSE, x |-> gd_update(in, v)]

\* the driver's x3_minus_2: x * x * x - 2.0 and 3.0 * x * x in double,
\* converted to P3109Number
newton_f(v) ==
    LET xd == p3109_dequantize(v)
    IN t_from_double(FSub(FMul(FMul(xd, xd), xd), Fin(FALSE, 2, 0)))
newton_df(v) ==
    LET xd == p3109_dequantize(v)
    IN t_from_double(FMul(FMul(Fin(FALSE, 3, 0), xd), xd))

\* std::fabs(static_cast<double>(fx)) < opts.tol
newton_converged(in, v) ==
    fless(fabs(p3109_dequantize(newton_f(v[1]))), in.tol)

\* static_cast<double>(dfx) == 0.0
newton_dfx_zero(v) == p3109_dequantize(newton_df(v[1])).cls = "zero"

\* x = x - fx / dfx
newton_update(v) ==
    <<t_sub(v[1], t_div(newton_f(v[1]), newton_df(v[1])))>>

\* one pass of the loop body of newton_raphson
\* (variant: without the zero-derivative return)
newton_body_unguarded(in, v) ==
    IF newton_converged(in, v)
    THEN [ret |-> TRUE, converged |-> TRUE, x |-> v]
    ELSE [ret |-> FALSE, converged |-> FALSE, x |-> newton_update(v)]
\* (variant: the zero-derivative return placed before the convergence test)
newton_body_guard_first(in, v) ==
    IF newton_dfx_zero(v)
    THEN [ret |-> TRUE, converged |-> FALSE, x |-> v]
    ELSE IF newton_converged(in, v)
    THEN [ret |-> TRUE, converged |-> TRUE, x |-> v]
    ELSE [ret |-> FALSE, converged |-> FALSE, x |-> newton_update(v)]

newton_body(in, v) ==
    IF newton_converged(in, v)
    THEN [ret |-> TRUE, converged |-> TRUE, x |-> v]
    ELSE IF newton_dfx_zero(v)
    THEN [ret |-> TRUE, converged |-> FALSE, x |-> v]
    ELSE [ret |-> FALSE, converged |-> FALSE, x |-> newton_update(v)]

\* The inputs of the runs.  Tolerances: 2^-27 (below every nonzero value of
\* the type), 0.5 and 4; step sizes: 2^-7, the default 1e-2 (as a float:
\* 10737418 * 2^-30), -0.125, 0.5 and 1.
Tolerances == {Fin(FALSE, 1, -27), Fin(FALSE, 1, -1), Fin(FALSE, 1, 2)}
StepSizes ==
    {Fin(FALSE, 1, -7), Fin(FALSE, 10737418, -30), Fin(TRUE, 1, -3),
     Fin(FALSE, 1, -1), Fin(FALSE, 1, 0)}

\* dim = 1 with Q in {1, 2}, b in {-1, 0, 0.5}, x0 in {0, 1}; dim = 2 with
\* Q = [[4, 1], [1, 3]], b = [-1, 2], x0 = [0, 0]; and problems with a NaN
\* or an infinity in Q, in b or in x0; and Q = 0.5, b = -7.75 from the raw
\* code 0x70 (16.0)
GDProblems ==
    { [dim |-> 1, Q |-> <<q>>, b |-> <<b>>, initial |-> <<x0>>] :
        q \in {48, 64}, b \in {176, 0, 32}, x0 \in {0, 48} }
    \cup { [dim |-> 2, Q |-> <<80, 48, 48, 72>>, b |-> <<176, 64>>,
            initial |-> <<0, 0>>] }
    \cup { [dim |-> 1, Q |-> <<255>>, b |-> <<176>>, initial |-> <<48>>],
           [dim |-> 1, Q |-> <<127>>, b |-> <<176>>, initial |-> <<0>>],
           [dim |-> 1, Q |-> <<48>>, b |-> <<254>>, initial |-> <<48>>],
           [dim |-> 1, Q |-> <<48>>, b |-> <<176>>, initial |-> <<255>>],
           [dim |-> 1, Q |-> <<48>>, b |-> <<176>>, initial |-> <<127>>],
           [dim |-> 2, Q |-> <<80, 48, 48, 72>>, b |-> <<176, 255>>,
            initial |-> <<0, 0>>],
           [dim |-> 2, Q |-> <<80, 0, 0, 72>>, b |-> <<176, 64>>,
            initial |-> <<254, 0>>] }
    \cup { [dim |-> 1, Q |-> <<32>>, b |-> <<223>>, initial |-> <<112>>] }

GDInputs ==
    { [dim |-> p.dim, Q |-> p.Q, b |-> p.b, initial |-> p.initial,
       step_size |-> s, max_iters |-> m, tol |-> t] :
        p \in GDProblems, s \in StepSizes, m \in 0 .. MaxIters, t \in Tolerances }

\* initial guesses 0, 1, 1.25, 2, -1, +infinity and NaN
NewtonInitials == {0, 48, 52, 64, 176, 127, 255}

NewtonInputs ==
    { [dim |-> 1, Q |-> <<>>, b |-> <<>>, initial |-> <<x0>>,
       step_size |-> Zero(FALSE), max_iters |-> m, tol |-> t] :
        x0 \in NewtonInitials, m \in 0 .. MaxIters, t \in Tolerances }

NoResult == [x |-> <<>>, iterations |-> 0, converged |-> FALSE]

\* for (std::size_t iter = 0; iter < opts.max_iters; ++iter)
\* (variant: iter <= opts.max_iters)
loop_guard_inclusive(i, in) == i <= in.max_iters
loop_guard(i, in) == i < in.max_iters

\* std::vector<T> x = initial;  T x = initial;  iter = 0
IterInit ==
    /\ \/ kernel = "gd" /\ inst \in GDInputs
       \/ kernel = "newton" /\ inst \in NewtonInputs
    /\ xs = inst.initial
    /\ iter = 0
    /\ status = "running"
    /\ result = NoResult
    /\ trace = <<>>

IterIdle ==
    /\ kernel = "idle"
    /\ inst = [dim |-> 0, Q |-> <<>>, b |-> <<>>, initial |-> <<>>,
               step_size |-> Zero(FALSE), max_iters |-> 0, tol |-> Zero(FALSE)]
    /\ xs = <<>> /\ iter = 0 /\ status = "idle" /\ result = NoResult
    /\ trace = <<>>

\* if (grad_norm < opts.tol) return {x, iter, true};
GDConverged ==
    /\ kernel = "gd" /\ status = "running"
    /\ loop_guard(iter, inst)
    /\ gd_body(inst, xs).ret
    /\ result' = [x |-> gd_body(inst, xs).x, iterations |-> iter,
                  converged |-> gd_body(inst, xs).converged]
    /\ status' = "done"
    /\ trace' = Append(trace, xs)
    /\ UNCHANGED <<kernel, inst, xs, iter, codecVars, numberVars, reduceVars, ioVars>>

\* the update of x; ++iter
GDStep ==
    /\ kernel = "gd" /\ status = "running"
    /\ loop_guard(iter, inst)
    /\ ~gd_body(inst, xs).ret
    /\ xs' = gd_body(inst, xs).x
    /\ iter' = iter + 1
    /\ trace' = Append(trace, xs)
    /\ UNCHANGED <<kernel, inst, status, result, codecVars, numberVars, reduceVars, ioVars>>

\* the loop ends: return {x, opts.max_iters, false}
GDMaxIters ==
    /\ kernel = "gd" /\ status = "running"
    /\ ~loop_guard(iter, inst)
    /\ result' = [x |-> xs, iterations |-> inst.max_iters, converged |-> FALSE]
    /\ status' = "done"
    /\ UNCHANGED <<kernel, inst, xs, iter, trace, codecVars, numberVars, reduceVars, ioVars>>

\* if (abs_fx < opts.tol) return {x, iter, true};
NewtonConverged ==
    /\ kernel = "newton" /\ status = "running"
    /\ loop_guard(iter, inst)
    /\ newton_body(inst, xs).ret /\ newton_body(inst, xs).converged
    /\ result' = [x |-> newton_body(inst, xs).x, iterations |-> iter,
                  converged |-> TRUE]
    /\ status' = "done"
    /\ trace' = Append(trace, xs)
    /\ UNCHANGED <<kernel, inst, xs, iter, codecVars, numberVars, reduceVars, ioVars>>

\* if (static_cast<double>(dfx) == 0.0) return {x, iter, false};
NewtonDerivativeZero ==
    /\ kernel = "newton" /\ status = "running"
    /\ loop_guard(iter, inst)
    /\ newton_body(inst, xs).ret /\ ~newton_body(inst, xs).converged
    /\ result' = [x |-> newton_body(inst, xs).x, iterations |-> iter,
                  converged |-> FALSE]
    /\ status' = "done"
    /\ trace' = Append(trace, xs)
    /\ UNCHANGED <<kernel, inst, xs, iter, codecVars, numberVars, reduceVars, ioVars>>

\* x = x - fx / dfx; ++iter
NewtonStep ==
    /\ kernel = "newton" /\ status = "running"
    /\ loop_guard(iter, inst)
    /\ ~newton_body(inst, xs).ret
    /\ xs' = newton_body(inst, xs).x
    /\ iter' = iter + 1
    /\ trace' = Append(trace, xs)
    /\ UNCHANGED <<kernel, inst, status, result, codecVars, numberVars, reduceVars, ioVars>>

\* the loop ends: return {x, opts.max_iters, false}
NewtonMaxIters ==
    /\ kernel = "newton" /\ status = "running"
    /\ ~loop_guard(iter, inst)
    /\ result' = [x |-> xs, iterations |-> inst.max_iters, converged |-> FALSE]
    /\ status' = "done"
    /\ UNCHANGED <<kernel, inst, xs, iter, trace, codecVars, numberVars, reduceVars, ioVars>>

IterNext ==
    \/ GDConverged \/ GDStep \/ GDMaxIters
    \/ NewtonConverged \/ NewtonDerivativeZero \/ NewtonStep \/ NewtonMaxIters

----------------------------------------------------------------------------
(* algorithms/matmul.hpp and algorithms/fir.hpp, T = P3109Number or double *)

RECURSIVE BToInt(_)
BToInt(a) == IF a = <<>> THEN 0 ELSE a[1] + Limb * BToInt(Tail(a))

\* static_cast<float>(double): to nearest, ties to even, from the leading 26
\* bits of the significand and a sticky bit
DToFloat(d) ==
    IF d.cls # "fin" THEN [d EXCEPT !.sig = 0]
    ELSE LET w == BBitLen(d.sig)
             sh == IF w > FLT_MANT_DIG + 2 THEN w - FLT_MANT_DIG - 2 ELSE 0
             top == BToInt(BShr(d.sig, sh))
             sticky == IF BLowZero(d.sig, sh) THEN 0 ELSE 1
         IN RoundFloat(d.neg, 2 * top + sticky, d.ex + sh - 1)

\* T{}; the accumulator of the wide path is a float
T_zero(ty) ==
    CASE ty = "double" -> DZero(FALSE)
      [] ty = "float" -> Zero(FALSE)
      [] ty = "p3109" -> 0

\* (variant: a float sum is rounded to the 8-bit type at every addition)
T_add_rounded(ty, a, b) ==
    CASE ty = "double" -> DAdd(a, b)
      [] ty = "float" -> p3109_dequantize(p3109_quantize(FAdd(a, b)))
      [] ty = "p3109" -> t_add(a, b)

T_add(ty, a, b) ==
    CASE ty = "double" -> DAdd(a, b)
      [] ty = "float" -> FAdd(a, b)
      [] ty = "p3109" -> t_add(a, b)

T_sub(ty, a, b) ==
    CASE ty = "double" -> DSub(a, b)
      [] ty = "float" -> FSub(a, b)
      [] ty = "p3109" -> t_sub(a, b)

T_mul(ty, a, b) ==
    CASE ty = "double" -> DMul(a, b)
      [] ty = "float" -> FMul(a, b)
      [] ty = "p3109" -> t_mul(a, b)

\* static_cast<float>(T)
to_float(ty, a) == IF ty = "double" THEN DToFloat(a) ELSE p3109_dequantize(a)

\* T(sum) for a float sum
from_float(ty, f) == IF ty = "double" THEN DFromFloat(f) ELSE p3109_quantize(f)

\* the type the reduction runs in
sum_type(in) == IF in.accumulate_in_fp32 THEN "float" ELSE in.T

\* float prod = static_cast<float>(a) * static_cast<float>(b);  T prod = a * b
\* (variant: the float product converted to T and back)
product_narrowed(in, a, b) ==
    IF in.accumulate_in_fp32
    THEN to_float(in.T, from_float(in.T, FMul(to_float(in.T, a), to_float(in.T, b))))
    ELSE T_mul(in.T, a, b)

product(in, a, b) ==
    IF in.accumulate_in_fp32
    THEN FMul(to_float(in.T, a), to_float(in.T, b))
    ELSE T_mul(in.T, a, b)

\* the body of the k loop after prod, and ++k: the locals k, sum and
\* compensation
\* (variant: sum = t before the compensation is computed)
add_term_sum_first(ty, use_kahan, acc, prod) ==
    IF use_kahan
    THEN LET y_val == T_sub(ty, prod, acc.compensation)
             t == T_add(ty, acc.sum, y_val)
         IN [k |-> acc.k + 1, sum |-> t,
             compensation |-> T_sub(ty, T_sub(ty, t, t), y_val)]
    ELSE [k |-> acc.k + 1, sum |-> T_add(ty, acc.sum, prod),
          compensation |-> acc.compensation]

add_term(ty, use_kahan, acc, prod) ==
    IF use_kahan
    THEN LET y_val == T_sub(ty, prod, acc.compensation)
             t == T_add(ty, acc.sum, y_val)
         IN [k |-> acc.k + 1, sum |-> t,
             compensation |-> T_sub(ty, T_sub(ty, t, acc.sum), y_val)]
    ELSE [k |-> acc.k + 1, sum |-> T_add(ty, acc.sum, prod),
          compensation |-> acc.compensation]

\* sum = 0, compensation = 0, k = 0
no_terms(in) ==
    [k |-> 0, sum |-> T_zero(sum_type(in)),
     compensation |-> T_zero(sum_type(in))]

\* C[i * n + j] = T(sum);  C[i * n + j] = sum;  y[n] = T(sum);  y[n] = sum
stored(in, acc) ==
    IF in.accumulate_in_fp32 THEN from_float(in.T, acc.sum) ELSE acc.sum

\* A[i * n + k] and B[k * n + j], indices from 0
\* (variant: B[j * n + k])
B_at_transposed(in, k, j) == in.B[j * in.n + k + 1]
A_at(in, i, k) == in.A[i * in.n + k + 1]
B_at(in, k, j) == in.B[k * in.n + j + 1]

\* for (k = ...; k < n; ++k) of matmul_square, from the locals acc on
RECURSIVE matmul_loop(_, _, _, _)
matmul_loop(in, i, j, acc) ==
    IF ~(acc.k < in.n) THEN acc
    ELSE LET prod == product(in, A_at(in, i, acc.k), B_at(in, acc.k, j))
         IN matmul_loop(in, i, j,
                        add_term(sum_type(in), in.use_kahan, acc, prod))

matmul_cell(in, i, j) == stored(in, matmul_loop(in, i, j, no_terms(in)))

\* if (n >= k)
\* (variant: n > k)
in_range_strict(n, k) == n > k
in_range(n, k) == n >= k

\* for (k = ...; k < M; ++k) of fir_filter, from the locals acc on
RECURSIVE fir_loop(_, _, _)
fir_loop(in, n, acc) ==
    IF ~(acc.k < Len(in.h)) THEN acc
    ELSE IF in_range(n, acc.k)
         THEN LET prod == product(in, in.h[acc.k + 1], in.x[n - acc.k + 1])
              IN fir_loop(in, n,
                          add_term(sum_type(in), in.use_kahan, acc, prod))
         ELSE fir_loop(in, n, [acc EXCEPT !.k = @ + 1])

fir_sample(in, n) == stored(in, fir_loop(in, n, no_terms(in)))

\* The inputs of the calls.  A double input is k / 2 for a small integer k.
DHalf(k) ==
    IF k = 0 THEN DZero(FALSE)
    ELSE DFin(k < 0, BFromInt(IF k < 0 THEN -k ELSE k), -1)

DHalves(ks) == [idx \in 1 .. Len(ks) |-> DHalf(ks[idx])]

\* n = 2: [[1, 2], [3, 4]] * [[5, 6], [7, 8]] and a product with halves;
\* n = 1; n = 3; n = 0
MatmulDoubles ==
    { [n |-> 2, A |-> DHalves(<<2, 4, 6, 8>>), B |-> DHalves(<<10, 12, 14, 16>>)],
      [n |-> 2, A |-> DHalves(<<1, 3, -5, 8>>), B |-> DHalves(<<-2, 7, 1, 0>>)],
      [n |-> 1, A |-> DHalves(<<6>>), B |-> DHalves(<<-14>>)],
      [n |-> 3, A |-> DHalves(<<2, 0, -4, 6, 10, 8, -2, 4, 12>>),
                B |-> DHalves(<<4, -6, 2, 0, 8, -10, 14, 2, 6>>)],
      [n |-> 0, A |-> <<>>, B |-> <<>>] }

\* codes of 0.0, non-canonical 0.0, -0.0, 0.25, 1.0, 1.5625, 10.0, -1.5,
\* 15.5, non-canonical 24.0, +infinity, -infinity and NaN
CodeSample == {0, 5, 128, 16, 48, 57, 100, 184, 111, 120, 127, 254, 255}

\* [[1, 2], [3, 4]], [[5, 6], [7, 8]] and matrices with roundings, with an
\* infinity and with a NaN
Matrices2 ==
    { <<48, 64, 72, 80>>, <<84, 88, 92, 96>>, <<16, 20, 111, 176>>,
      <<57, 99, 184, 33>>, <<127, 48, 0, 48>>, <<48, 255, 48, 64>> }

\* the n * n matrix with every entry c
Constant(n, c) == [idx \in 1 .. n * n |-> c]

\* dot products of equal terms: 0.25 * 1.0, 0.25 * 0.25, 0.3125 * 1.5625,
\* 1.0625 * 1.0 and (-0.25) * 1.0625
SmallTerms == {<<16, 48>>, <<16, 16>>, <<20, 57>>, <<49, 48>>, <<144, 49>>}

MatmulCodes ==
    { [n |-> 1, A |-> <<a>>, B |-> <<b>>] : a \in CodeSample, b \in CodeSample }
    \cup { [n |-> 2, A |-> a, B |-> b] : a \in Matrices2, b \in Matrices2 }
    \cup { [n |-> n, A |-> Constant(n, t[1]), B |-> Constant(n, t[2])] :
             n \in 3 .. MaxDim, t \in SmallTerms }

\* h = [0.5, 0.5] on x = [1, 2, 3, 4]; h = [1.0] on x = [1, 2, 3]; more taps
\* than samples; no taps; no samples
FirDoubles ==
    { [h |-> DHalves(<<1, 1>>), x |-> DHalves(<<2, 4, 6, 8>>)],
      [h |-> DHalves(<<2>>), x |-> DHalves(<<2, 4, 6>>)],
      [h |-> DHalves(<<2, -4, 1>>), x |-> DHalves(<<6, -3>>)],
      [h |-> <<>>, x |-> DHalves(<<2, 4>>)],
      [h |-> DHalves(<<1, 1>>), x |-> <<>>] }

\* the taps and the samples of the 8-bit calls
TapCodes ==
    { <<>>, <<48>>, <<32, 32>>, <<48, 255>>, <<127, 16>>, <<16, 184, 111>>,
      <<36, 42>> }
SampleCodes ==
    { <<>>, <<64>>, <<48, 64, 72, 80>>, <<0, 127, 48>>, <<255, 48>>,
      <<111, 111, 176>>, <<55, 81>> }

\* the sequence of n values c
Repeat(n, c) == [idx \in 1 .. n |-> c]

FirCodes ==
    { [h |-> hs, x |-> ss] : hs \in TapCodes, ss \in SampleCodes }
    \cup { [h |-> Repeat(MaxTaps, t[1]), x |-> Repeat(MaxTaps, t[2])] :
             t \in SmallTerms }

\* the calls on the problems ps over the type ty, with every MatMulOptions
MatmulInputs(ty, ps) ==
    { [T |-> ty, n |-> p.n, A |-> p.A, B |-> p.B, h |-> <<>>, x |-> <<>>,
       use_kahan |-> kh, accumulate_in_fp32 |-> w] :
        p \in ps, kh \in BOOLEAN, w \in BOOLEAN }

\* the calls on the problems ps over the type ty, with every FIROptions
FirInputs(ty, ps) ==
    { [T |-> ty, n |-> 0, A |-> <<>>, B |-> <<>>, h |-> p.h, x |-> p.x,
       use_kahan |-> kh, accumulate_in_fp32 |-> w] :
        p \in ps, kh \in BOOLEAN, w \in BOOLEAN }

NoArgs ==
    [T |-> "p3109", n |-> 0, A |-> <<>>, B |-> <<>>, h |-> <<>>, x |-> <<>>,
     use_kahan |-> FALSE, accumulate_in_fp32 |-> FALSE]

\* std::vector<T> C(n * n, T{});  std::vector<T> y(N, T{});  i = j = 0; n = 0
ReduceInit ==
    /\ \/ /\ call = "matmul"
          /\ \/ args \in MatmulInputs("p3109", MatmulCodes)
             \/ args \in MatmulInputs("double", MatmulDoubles)
          /\ out = [idx \in 1 .. args.n * args.n |-> T_zero(args.T)]
       \/ /\ call = "fir"
          /\ \/ args \in FirInputs("p3109", FirCodes)
             \/ args \in FirInputs("double", FirDoubles)
          /\ out = [idx \in 1 .. Len(args.x) |-> T_zero(args.T)]
    /\ cell_i = 0
    /\ cell_j = 0
    /\ returned = FALSE

ReduceIdle ==
    /\ call = "idle" /\ args = NoArgs /\ out = <<>>
    /\ cell_i = 0 /\ cell_j = 0 /\ returned = FALSE

\* the body of the j loop of matmul_square, then ++j or ++i
MatmulCell ==
    /\ call = "matmul" /\ ~returned
    /\ cell_i < args.n
    /\ out' = [out EXCEPT ![cell_i * args.n + cell_j + 1] =
                              matmul_cell(args, cell_i, cell_j)]
    /\ IF cell_j + 1 < args.n
       THEN cell_j' = cell_j + 1 /\ cell_i' = cell_i
       ELSE cell_j' = 0 /\ cell_i' = cell_i + 1
    /\ UNCHANGED <<call, args, returned, codecVars, numberVars,
                   iterVars, ioVars>>

\* return C;
MatmulReturn ==
    /\ call = "matmul" /\ ~returned
    /\ ~(cell_i < args.n)
    /\ returned' = TRUE
    /\ UNCHANGED <<call, args, out, cell_i, cell_j, codecVars, numberVars,
                   iterVars, ioVars>>

\* the body of the n loop of fir_filter, then ++n
FirSample ==
    /\ call = "fir" /\ ~returned
    /\ cell_i < Len(args.x)
    /\ out' = [out EXCEPT ![cell_i + 1] = fir_sample(args, cell_i)]
    /\ cell_i' = cell_i + 1
    /\ UNCHANGED <<call, args, cell_j, returned, codecVars, numberVars,
                   iterVars, ioVars>>

\* return y;
FirReturn ==
    /\ call = "fir" /\ ~returned
    /\ ~(cell_i < Len(args.x))
    /\ returned' = TRUE
    /\ UNCHANGED <<call, args, out, cell_i, cell_j, codecVars, numberVars,
                   iterVars, ioVars>>

ReduceNext == MatmulCell \/ MatmulReturn \/ FirSample \/ FirReturn

----------------------------------------------------------------------------
(* algorithms/gradient_descent.hpp and algorithms/newton.hpp, T = double *)

\* a * b + c with one rounding: the contraction of a product and a sum that
\* a build may apply to a floating expression
DFma(a, b, c) ==
    IF a.cls = "fin" /\ b.cls = "fin"
    THEN DAdd(DFin(a.neg # b.neg, BMul(a.sig, b.sig), a.ex + b.ex), c)
    ELSE DAdd(DMul(a, b), c)

\* a * b + c at an expression of the source: contracted when the build
\* contracts that expression, in two roundings otherwise
mul_add(site, in, a, b, c) ==
    IF site \in in.contract THEN DFma(a, b, c) ELSE DAdd(DMul(a, b), c)

\* a decimal literal num / den with both integers exact: the nearest double
DLiteral(num, den) == DDiv(DInt(num), DInt(den))

\* 1e-10: 10^10 = 10^5 * 10^5 is exact in a double
D1em10 == DDiv(DInt(1), DMul(DInt(100000), DInt(100000)))

\* acc = acc + Q[i * dim + j] * x[j] for j < n, from T acc{}
RECURSIVE gd_acc_double(_, _, _, _)
gd_acc_double(in, v, i, n) ==
    IF n = 0 THEN DZero(FALSE)
    ELSE mul_add("acc", in, in.Q[(i - 1) * in.dim + n], v[n],
                 gd_acc_double(in, v, i, n - 1))

\* gradient[i] = acc + b[i]
\* (variant: acc - b[i])
gd_gradient_double_minus_b(in, v) ==
    [i \in 1 .. in.dim |-> DSub(gd_acc_double(in, v, i, in.dim), in.b[i])]
gd_gradient_double(in, v) ==
    [i \in 1 .. in.dim |-> DAdd(gd_acc_double(in, v, i, in.dim), in.b[i])]

\* grad_norm += gd * gd over the first n components
RECURSIVE gd_sumsq_double(_, _, _)
gd_sumsq_double(in, g, n) ==
    IF n = 0 THEN DZero(FALSE)
    ELSE mul_add("norm", in, g[n], g[n], gd_sumsq_double(in, g, n - 1))

\* std::sqrt(grad_norm) < opts.tol
gd_converged_double(in, v) ==
    DSqrtLt(gd_sumsq_double(in, gd_gradient_double(in, v), in.dim), in.tol)

\* x[i] = x[i] - T(opts.step_size) * gradient[i]
gd_update_double(in, v) ==
    LET g == gd_gradient_double(in, v)
    IN [i \in 1 .. in.dim |->
          IF "update" \in in.contract
          THEN DFma(Dneg(in.step_size), g[i], v[i])
          ELSE DSub(v[i], DMul(in.step_size, g[i]))]

\* one pass of the loop body of gradient_descent_quadratic
gd_body_double(in, v) ==
    IF gd_converged_double(in, v)
    THEN [ret |-> TRUE, converged |-> TRUE, x |-> v]
    ELSE [ret |-> FALSE, converged |-> FALSE, x |-> gd_update_double(in, v)]

\* the lambdas of the test: x * x * x - 2.0 and 3.0 * x * x
newton_f_double(in, v) ==
    IF "f" \in in.contract
    THEN DFma(DMul(v, v), v, DInt(-2))
    ELSE DSub(DMul(DMul(v, v), v), DInt(2))
newton_df_double(v) == DMul(DMul(DInt(3), v), v)

\* std::fabs(static_cast<double>(fx)) < opts.tol
\* (variant: fx < opts.tol, without std::fabs)
newton_converged_double_signed(in, v) ==
    DLt(newton_f_double(in, v[1]), in.tol)
newton_converged_double(in, v) ==
    DLt(Dfabs(newton_f_double(in, v[1])), in.tol)

\* static_cast<double>(dfx) == 0.0
newton_dfx_zero_double(v) == newton_df_double(v[1]).cls = "zero"

\* x = x - fx / dfx
newton_update_double(in, v) ==
    <<DSub(v[1], DDiv(newton_f_double(in, v[1]), newton_df_double(v[1])))>>

\* one pass of the loop body of newton_raphson
newton_body_double(in, v) ==
    IF newton_converged_double(in, v)
    THEN [ret |-> TRUE, converged |-> TRUE, x |-> v]
    ELSE IF newton_dfx_zero_double(v)
    THEN [ret |-> TRUE, converged |-> FALSE, x |-> v]
    ELSE [ret |-> FALSE, converged |-> FALSE, x |-> newton_update_double(in, v)]

\* The runs of tests/iterative_tests.cpp: Q = [[4, 1], [1, 3]], b = [-1, 2],
\* x0 = [0, 0], step 0.05; with tolerance 1e-8 and 200 iterations under every
\* choice of the contracted expressions, and with 100 iterations or
\* tolerance 1e-3 without contraction.
GDDoubleInputs ==
    LET run(m, t, c) ==
            [dim |-> 2, Q |-> <<DInt(4), DInt(1), DInt(1), DInt(3)>>,
             b |-> <<DInt(-1), DInt(2)>>,
             initial |-> <<DZero(FALSE), DZero(FALSE)>>,
             step_size |-> DLiteral(5, 100), max_iters |-> m, tol |-> t,
             contract |-> c]
    IN { run(200, DLiteral(1, 100000000), c) :
            c \in SUBSET {"acc", "norm", "update"} }
       \cup { run(100, DLiteral(1, 100000000), {}),
              run(200, DLiteral(1, 1000), {}) }

\* initial guesses 1, 0, 2, -1 and 0.5; tolerance 1e-10; 2 or 30 iterations
NewtonDoubleInputs ==
    { [dim |-> 1, Q |-> <<>>, b |-> <<>>, initial |-> <<x0>>,
       step_size |-> DZero(FALSE), max_iters |-> m, tol |-> D1em10,
       contract |-> c] :
        x0 \in {DInt(1), DZero(FALSE), DInt(2), DInt(-1), DHalf(1)},
        m \in {2, 30},
        c \in SUBSET {"f"} }

\* std::vector<T> x = initial;  T x = initial;  iter = 0
IterDoubleInit ==
    /\ \/ kernel = "gd_double" /\ inst \in GDDoubleInputs
       \/ kernel = "newton_double" /\ inst \in NewtonDoubleInputs
    /\ xs = inst.initial
    /\ iter = 0
    /\ status = "running"
    /\ result = NoResult
    /\ trace = <<>>

\* if (grad_norm < opts.tol) return {x, iter, true};
GDDoubleConverged ==
    /\ kernel = "gd_double" /\ status = "running"
    /\ loop_guard(iter, inst)
    /\ gd_body_double(inst, xs).ret
    /\ result' = [x |-> gd_body_double(inst, xs).x, iterations |-> iter,
                  converged |-> gd_body_double(inst, xs).converged]
    /\ status' = "done"
    /\ trace' = Append(trace, xs)
    /\ UNCHANGED <<kernel, inst, xs, iter, codecVars, numberVars, reduceVars, ioVars>>

\* the update of x; ++iter
GDDoubleStep ==
    /\ kernel = "gd_double" /\ status = "running"
    /\ loop_guard(iter, inst)
    /\ ~gd_body_double(inst, xs).ret
    /\ xs' = gd_body_double(inst, xs).x
    /\ iter' = iter + 1
    /\ trace' = Append(trace, xs)
    /\ UNCHANGED <<kernel, inst, status, result, codecVars, numberVars, reduceVars, ioVars>>

\* the loop ends: return {x, opts.max_iters, false}
GDDoubleMaxIters ==
    /\ kernel = "gd_double" /\ status = "running"
    /\ ~loop_guard(iter, inst)
    /\ result' = [x |-> xs, iterations |-> inst.max_iters, converged |-> FALSE]
    /\ status' = "done"
    /\ UNCHANGED <<kernel, inst, xs, iter, trace, codecVars, numberVars, reduceVars, ioVars>>

\* if (abs_fx < opts.tol) return {x, iter, true};
NewtonDoubleConverged ==
    /\ kernel = "newton_double" /\ status = "running"
    /\ loop_guard(iter, inst)
    /\ newton_body_double(inst, xs).ret /\ newton_body_double(inst, xs).converged
    /\ result' = [x |-> newton_body_double(inst, xs).x, iterations |-> iter,
                  converged |-> TRUE]
    /\ status' = "done"
    /\ trace' = Append(trace, xs)
    /\ UNCHANGED <<kernel, inst, xs, iter, codecVars, numberVars, reduceVars, ioVars>>

\* if (static_cast<double>(dfx) == 0.0) return {x, iter, false};
NewtonDoubleDerivativeZero ==
    /\ kernel = "newton_double" /\ status = "running"
    /\ loop_guard(iter, inst)
    /\ newton_body_double(inst, xs).ret /\ ~newton_body_double(inst, xs).converged
    /\ result' = [x |-> newton_body_double(inst, xs).x, iterations |-> iter,
                  converged |-> FALSE]
    /\ status' = "done"
    /\ trace' = Append(trace, xs)
    /\ UNCHANGED <<kernel, inst, xs, iter, codecVars, numberVars, reduceVars, ioVars>>

\* x = x - fx / dfx; ++iter
NewtonDoubleStep ==
    /\ kernel = "newton_double" /\ status = "running"
    /\ loop_guard(iter, inst)
    /\ ~newton_body_double(inst, xs).ret
    /\ xs' = newton_body_double(inst, xs).x
    /\ iter' = iter + 1
    /\ trace' = Append(trace, xs)
    /\ UNCHANGED <<kernel, inst, status, result, codecVars, numberVars, reduceVars, ioVars>>

\* the loop ends: return {x, opts.max_iters, false}
NewtonDoubleMaxIters ==
    /\ kernel = "newton_double" /\ status = "running"
    /\ ~loop_guard(iter, inst)
    /\ result' = [x |-> xs, iterations |-> inst.max_iters, converged |-> FALSE]
    /\ status' = "done"
    /\ UNCHANGED <<kernel, inst, xs, iter, trace, codecVars, numberVars, reduceVars, ioVars>>

IterDoubleNext ==
    \/ GDDoubleConverged \/ GDDoubleStep \/ GDDoubleMaxIters
    \/ NewtonDoubleConverged \/ NewtonDoubleDerivativeZero
    \/ NewtonDoubleStep \/ NewtonDoubleMaxIters

----------------------------------------------------------------------------
(* formats/precision.cpp: the names of the formats.  A std::string is the   *)
(* sequence of its characters.                                              *)

UpperCase ==
    <<"A", "B", "C", "D", "E", "F", "G", "H", "I", "J", "K", "L", "M",
      "N", "O", "P", "Q", "R", "S", "T", "U", "V", "W", "X", "Y", "Z">>
LowerCase ==
    <<"a", "b", "c", "d", "e", "f", "g", "h", "i", "j", "k", "l", "m",
      "n", "o", "p", "q", "r", "s", "t", "u", "v", "w", "x", "y", "z">>

\* std::tolower(c) in the "C" locale: 'A' .. 'Z' to 'a' .. 'z', every other
\* character unchanged
std_tolower(c) ==
    IF \E l \in 1 .. Len(UpperCase) : UpperCase[l] = c
    THEN LowerCase[CHOOSE l \in 1 .. Len(UpperCase) : UpperCase[l] = c]
    ELSE c

\* std::transform(..., std::tolower)
\* (variant: the name returned as it is)
to_lower_identity(name) == name
to_lower(name) == [l \in 1 .. Len(name) |-> std_tolower(name[l])]

\* static const std::unordered_map<std::string, Precision> map
precision_map ==
    { <<<<"f", "p", "6", "4">>, "FP64">>,
      <<<<"f", "l", "o", "a", "t", "6", "4">>, "FP64">>,
      <<<<"f", "p", "3", "2">>, "FP32">>,
      <<<<"f", "l", "o", "a", "t", "3", "2">>, "FP32">>,
      <<<<"t", "f", "3", "2">>, "TF32">>,
      <<<<"t", "e", "n", "s", "o", "r", "f", "l", "o", "a", "t", "3", "2">>,
        "TF32">>,
      <<<<"b", "f", "1", "6">>, "BF16">>,
      <<<<"b", "f", "l", "o", "a", "t", "1", "6">>, "BF16">>,
      <<<<"p", "3", "1", "0", "9">>, "P3109_8">>,
      <<<<"p", "3", "1", "0", "9", "_", "8">>, "P3109_8">> }

\* the outcome of a call: a returned value or a thrown std::runtime_error
Returns(v) == [throws |-> FALSE, value |-> v, what |-> <<>>]
Throws(msg, arg) == [throws |-> TRUE, value |-> "none", what |-> <<msg, arg>>]

\* Precision precision_from_string(std::string_view name)
precision_from_string(name) ==
    LET lower == to_lower(name)
        it == { e \in precision_map : e[1] = lower }
    IN IF it = {}
       THEN Throws("Unknown precision string: ", name)
       ELSE Returns((CHOOSE e \in it : TRUE)[2])

\* std::string precision_to_string(Precision p)
precision_to_string(p) ==
    CASE p = "FP64" -> <<"f", "p", "6", "4">>
      [] p = "FP32" -> <<"f", "p", "3", "2">>
      [] p = "TF32" -> <<"t", "f", "3", "2">>
      [] p = "BF16" -> <<"b", "f", "1", "6">>
      [] p = "P3109_8" -> <<"p", "3", "1", "0", "9", "_", "8">>

----------------------------------------------------------------------------
(* core/io.cpp: CsvWriter.  The file is the sequence of its characters (an  *)
(* absent file and an empty file are both <<>>); the stream stays good      *)
(* after a successful open.                                                 *)

NoThrow == [throws |-> FALSE, what |-> <<>>]
RuntimeError(msg) == [throws |-> TRUE, what |-> <<msg>>]

\* value.find_first_of(",\"\n\r") != npos
needs_quotes(value) ==
    \E l \in 1 .. Len(value) : value[l] \in {",", "\"", "\n", "\r"}

\* for (char c : value) { if (c == '"') quoted.push_back('"'); quoted.push_back(c); }
RECURSIVE quoted_body(_)
quoted_body(value) ==
    IF value = <<>> THEN <<>>
    ELSE (IF Head(value) = "\"" THEN <<"\"", "\"">> ELSE <<Head(value)>>)
         \o quoted_body(Tail(value))

\* std::string escape_csv_field(std::string_view value)
escape_csv_field(value) ==
    IF ~needs_quotes(value) THEN value
    ELSE <<"\"">> \o quoted_body(value) \o <<"\"">>

\* for (i ...) { if (i > 0) line += ","; line += escape_csv_field(values[i]); }
\* over the first n values
RECURSIVE csv_line(_, _)
csv_line(values, n) ==
    IF n = 0 THEN <<>>
    ELSE csv_line(values, n - 1)
         \o (IF n > 1 THEN <<",">> ELSE <<>>)
         \o escape_csv_field(values[n])

\* CsvWriter::CsvWriter(path, append) on the file f, the open succeeding or
\* not: std::ios::trunc empties the file, and header_written_ is set when
\* append finds a file that is not empty
csv_open(f, append, ok) ==
    IF ~ok
    THEN [ex |-> RuntimeError("Failed to open CSV file: "), file |-> f,
          header_written |-> FALSE]
    ELSE [ex |-> NoThrow, file |-> IF append THEN f ELSE <<>>,
          header_written |-> append /\ Len(f) > 0]

\* void CsvWriter::write_header(columns)
\* (variant: without the early return)
csv_write_header_again(f, hw, columns) ==
    [ex |-> NoThrow, file |-> f \o csv_line(columns, Len(columns)) \o <<"\n">>,
     header_written |-> TRUE]
csv_write_header(f, hw, columns) ==
    IF hw THEN [ex |-> NoThrow, file |-> f, header_written |-> hw]
    ELSE [ex |-> NoThrow,
          file |-> f \o csv_line(columns, Len(columns)) \o <<"\n">>,
          header_written |-> TRUE]

\* void CsvWriter::write_row(values)
csv_write_row(f, hw, values) ==
    IF ~hw
    THEN [ex |-> RuntimeError("CSV header must be written before rows"),
          file |-> f, header_written |-> hw]
    ELSE [ex |-> NoThrow,
          file |-> f \o csv_line(values, Len(values)) \o <<"\n">>,
          header_written |-> hw]

\* Calls made on one writer.
MaxCalls == 3

\* files found at the path: none or empty, a header line, text without a
\* line end
ExistingFiles ==
    { <<>>, <<"a", ",", "b", "\n">>, <<"z">> }

\* header columns and row values: plain fields, an empty list, fields with
\* a comma, a quote and a line feed, an empty field
FieldLists ==
    { <<<<"a">>, <<"b">>>>,
      <<>>,
      <<<<"a", ",", "b">>, <<>>, <<"\"">>>>,
      <<<<"1">>, <<"x", "\n">>>> }

IoIdle ==
    /\ io_pc = "idle" /\ csv_file = <<>> /\ header_written_ = FALSE
    /\ thrown = NoThrow /\ calls = <<>>
    /\ config = <<>> /\ exp_i = 0 /\ entry_i = 0 /\ parsed = <<>> /\ run_i = 0

DriverIdle ==
    /\ config = <<>> /\ exp_i = 0 /\ entry_i = 0 /\ parsed = <<>> /\ run_i = 0

\* a client about to construct a writer on a path
CsvInit ==
    /\ io_pc = "new" /\ csv_file \in ExistingFiles /\ header_written_ = FALSE
    /\ thrown = NoThrow /\ calls = <<>>
    /\ DriverIdle

\* the log of the calls on the writer: the operation, its argument (for the
\* constructor: append and the file found at the path) and its exception
Called(op, arg, r) == Append(calls, [op |-> op, arg |-> arg, ex |-> r.ex])

\* CsvWriter writer(path, append);
CsvConstruct ==
    /\ io_pc = "new"
    /\ \E append \in BOOLEAN, ok \in BOOLEAN :
          LET r == csv_open(csv_file, append, ok)
          IN /\ csv_file' = r.file
             /\ header_written_' = r.header_written
             /\ thrown' = r.ex
             /\ calls' = Called("CsvWriter", <<append, csv_file>>, r)
             /\ io_pc' = IF r.ex.throws THEN "failed" ELSE "open"
    /\ UNCHANGED <<config, exp_i, entry_i, parsed, run_i,
                   codecVars, numberVars, iterVars, reduceVars>>

\* writer.write_header(columns);
CsvWriteHeader ==
    /\ io_pc = "open" /\ Len(calls) <= MaxCalls
    /\ \E columns \in FieldLists :
          LET r == csv_write_header(csv_file, header_written_, columns)
          IN /\ csv_file' = r.file
             /\ header_written_' = r.header_written
             /\ thrown' = r.ex
             /\ calls' = Called("write_header", columns, r)
    /\ UNCHANGED <<io_pc, config, exp_i, entry_i, parsed, run_i,
                   codecVars, numberVars, iterVars, reduceVars>>

\* writer.write_row(values); an exception is caught by the client
CsvWriteRow ==
    /\ io_pc = "open" /\ Len(calls) <= MaxCalls
    /\ \E values \in FieldLists :
          LET r == csv_write_row(csv_file, header_written_, values)
          IN /\ csv_file' = r.file
             /\ header_written_' = r.header_written
             /\ thrown' = r.ex
             /\ calls' = Called("write_row", values, r)
    /\ UNCHANGED <<io_pc, config, exp_i, entry_i, parsed, run_i,
                   codecVars, numberVars, iterVars, reduceVars>>

CsvNext == CsvConstruct \/ CsvWriteHeader \/ CsvWriteRow

----------------------------------------------------------------------------
(* src/main.cpp: the experiment driver.  A configuration has every field   *)
(* its experiments require; each experiment has one size (or dimension, or *)
(* initial guess) and one trial, so it emits one run per precision.        *)

\* const std::vector<std::string> kCsvHeader
kCsvHeader ==
    << <<"a", "l", "g", "o">>, <<"s", "i", "z", "e">>,
       <<"p", "r", "e", "c", "i", "s", "i", "o", "n">>,
       <<"s", "e", "e", "d">>,
       <<"p", "a", "r", "a", "m", "s", "_", "j", "s", "o", "n">>,
       <<"r", "e", "l", "_", "e", "r", "r", "o", "r">>,
       <<"i", "t", "e", "r", "s">>,
       <<"c", "o", "n", "v", "e", "r", "g", "e", "d">>,
       <<"n", "_", "n", "a", "n">>, <<"n", "_", "i", "n", "f">>,
       <<"e", "l", "a", "p", "s", "e", "d", "_", "m", "s">> >>

\* the names compared with algo in main
algo_matmul == <<"m", "a", "t", "m", "u", "l">>
algo_gd_quadratic ==
    <<"g", "d", "_", "q", "u", "a", "d", "r", "a", "t", "i", "c">>
algo_newton == <<"n", "e", "w", "t", "o", "n">>

\* if (algo == "matmul") ... else if (algo == "gd_quadratic") ...
\* else if (algo == "newton") ... else throw
dispatches(algo) == algo \in {algo_matmul, algo_gd_quadratic, algo_newton}

\* size_str of emit_run: std::to_string(size), std::to_string(dim) with
\* size = dim = 2, and "1" for newton
size_str(algo) == IF algo = algo_newton THEN <<"1">> ELSE <<"2">>

\* seed, params_json, rel_error, iters, converged, n_nan, n_inf, elapsed_ms
\* of a run, as emit_run formats them
RunColumns ==
    { << <<"7">>, <<"{", "}">>, <<"0", ".", "0">>, <<"0">>, <<"1">>,
         <<"0">>, <<"0">>, <<"0", ".", "1">> >>,
      << <<"9">>,
         <<"{", "\"", "k", "\"", ":", "1", ",", "\"", "t", "\"", ":", "0", "}">>,
         <<"n", "a", "n">>, <<"3">>, <<"0">>, <<"1">>, <<"0">>,
         <<"2", ".", "5">> >> }

\* writer.write_row({algo_name, size_str, precision_to_string(precision), ...})
run_row(algo, precision, cols) ==
    <<algo, size_str(algo), precision_to_string(precision)>> \o cols

Experiment == config.experiments[exp_i]

\* CsvWriter writer(out_csv_path, false);  the exception of a failed open
\* leaves main
DriverOpen ==
    /\ io_pc = "main"
    /\ LET r == csv_open(csv_file, FALSE, config.open_ok)
       IN /\ csv_file' = r.file
          /\ header_written_' = r.header_written
          /\ thrown' = r.ex
          /\ calls' = Called("CsvWriter", <<FALSE, csv_file>>, r)
          /\ io_pc' = IF r.ex.throws THEN "terminated" ELSE "header"
    /\ UNCHANGED <<config, exp_i, entry_i, parsed, run_i,
                   codecVars, numberVars, iterVars, reduceVars>>

\* writer.write_header(kCsvHeader);
DriverWriteHeader ==
    /\ io_pc = "header"
    /\ LET r == csv_write_header(csv_file, header_written_, kCsvHeader)
       IN /\ csv_file' = r.file
          /\ header_written_' = r.header_written
          /\ thrown' = r.ex
          /\ calls' = Called("write_header", kCsvHeader, r)
    /\ io_pc' = "dispatch"
    /\ exp_i' = 1
    /\ UNCHANGED <<config, entry_i, parsed, run_i,
                   codecVars, numberVars, iterVars, reduceVars>>

\* the chain of if (algo == ...) on the next experiment; the exception of
\* the last else leaves main
DriverDispatch ==
    /\ io_pc = "dispatch" /\ exp_i <= Len(config.experiments)
    /\ IF dispatches(Experiment.algo)
       THEN /\ io_pc' = "parse"
            /\ entry_i' = 1
            /\ parsed' = <<>>
            /\ thrown' = thrown
       ELSE /\ io_pc' = "terminated"
            /\ thrown' = [throws |-> TRUE,
                          what |-> <<"Unsupported algo: ", Experiment.algo>>]
            /\ UNCHANGED <<entry_i, parsed>>
    /\ UNCHANGED <<csv_file, header_written_, calls, config, exp_i, run_i,
                   codecVars, numberVars, iterVars, reduceVars>>

\* parse_precisions: result.push_back(precision_from_string(entry.as_string()));
\* an exception leaves parse_precisions and main
DriverParsePrecision ==
    /\ io_pc = "parse" /\ entry_i <= Len(Experiment.precisions)
    /\ LET r == precision_from_string(Experiment.precisions[entry_i])
       IN IF r.throws
          THEN /\ io_pc' = "terminated"
               /\ thrown' = [throws |-> TRUE, what |-> r.what]
               /\ UNCHANGED <<entry_i, parsed>>
          ELSE /\ parsed' = Append(parsed, r.value)
               /\ entry_i' = entry_i + 1
               /\ UNCHANGED <<io_pc, thrown>>
    /\ UNCHANGED <<csv_file, header_written_, calls, config, exp_i, run_i,
                   codecVars, numberVars, iterVars, reduceVars>>

\* return result;
DriverParsed ==
    /\ io_pc = "parse" /\ entry_i > Len(Experiment.precisions)
    /\ io_pc' = "run"
    /\ run_i' = 1
    /\ UNCHANGED <<csv_file, header_written_, thrown, calls, config, exp_i,
                   entry_i, parsed,
                   codecVars, numberVars, iterVars, reduceVars>>

\* for (auto precision : precisions) { ... emit_run(...); }
DriverEmitRun ==
    /\ io_pc = "run" /\ run_i <= Len(parsed)
    /\ \E cols \in RunColumns :
          LET row == run_row(Experiment.algo, parsed[run_i], cols)
              r == csv_write_row(csv_file, header_written_, row)
          IN /\ csv_file' = r.file
             /\ header_written_' = r.header_written
             /\ thrown' = r.ex
             /\ calls' = Called("write_row", row, r)
             /\ io_pc' = IF r.ex.throws THEN "terminated" ELSE "run"
    /\ run_i' = run_i + 1
    /\ UNCHANGED <<config, exp_i, entry_i, parsed,
                   codecVars, numberVars, iterVars, reduceVars>>

\* the next experiment of for (const auto& exp_value : experiments)
DriverNextExperiment ==
    /\ io_pc = "run" /\ run_i > Len(parsed)
    /\ io_pc' = "dispatch"
    /\ exp_i' = exp_i + 1
    /\ UNCHANGED <<csv_file, header_written_, thrown, calls, config,
                   entry_i, parsed, run_i,
                   codecVars, numberVars, iterVars, reduceVars>>

\* return 0;
DriverReturn ==
    /\ io_pc = "dispatch" /\ exp_i > Len(config.experiments)
    /\ io_pc' = "returned"
    /\ UNCHANGED <<csv_file, header_written_, thrown, calls, config, exp_i,
                   entry_i, parsed, run_i,
                   codecVars, numberVars, iterVars, reduceVars>>

DriverNext ==
    \/ DriverOpen \/ DriverWriteHeader \/ DriverDispatch
    \/ DriverParsePrecision \/ DriverParsed \/ DriverEmitRun
    \/ DriverNextExperiment \/ DriverReturn

\* std::toupper on the letters of the model
std_toupper(c) ==
    IF \E l \in 1 .. Len(LowerCase) : LowerCase[l] = c
    THEN UpperCase[CHOOSE l \in 1 .. Len(LowerCase) : LowerCase[l] = c]
    ELSE c

\* every spelling of the first n characters of key in upper and lower case
RECURSIVE CaseVariants(_, _)
CaseVariants(key, n) ==
    IF n = 0 THEN {<<>>}
    ELSE { Append(v, c) : v \in CaseVariants(key, n - 1),
                          c \in {key[n], std_toupper(key[n])} }

MapKeys == { e[1] : e \in precision_map }

\* names near the keys of the map: a key without its last character, with
\* one more character, after a space, with '@', '[' or '{' (neighbours of
\* the letters) for its first character; and other words
NearNames ==
    UNION { { SubSeq(k, 1, Len(k) - 1), Append(k, " "), Append(k, "x"),
              <<" ">> \o k } \cup
            { <<c>> \o Tail(k) : c \in {"@", "[", "{"} } : k \in MapKeys }
    \cup { <<>>, <<"f", "p", "1", "6">>, <<"d", "o", "u", "b", "l", "e">>,
           <<"f", "l", "o", "a", "t">>, <<"F", "P", "8">>,
           <<"p", "3", "1", "0", "9", "_", "1", "6">> }

AllNames ==
    UNION { CaseVariants(k, Len(k)) : k \in MapKeys } \cup NearNames

\* the names of the lists of two entries
SomeNames ==
    { <<"f", "p", "6", "4">>, <<"F", "L", "O", "A", "T", "3", "2">>,
      <<"B", "f", "1", "6">>, <<"p", "3", "1", "0", "9">>,
      <<"f", "p", "1", "6">> }

PrecisionLists ==
    { <<>> } \cup { <<a, b>> : a \in SomeNames, b \in SomeNames }

\* algo names: those main compares with, "fir", and names main does not know
SomeAlgos ==
    { algo_matmul, algo_gd_quadratic, algo_newton, <<"f", "i", "r">>,
      <<"M", "a", "t", "m", "u", "l">>, <<"s", "v", "d">>, <<>> }

\* Configurations: one experiment of any algo with a list of zero or two
\* names; one matmul experiment with any one name; two experiments; and a
\* path that cannot be opened.
OneExperiment ==
    { <<[algo |-> a, precisions |-> ps]>> :
        a \in SomeAlgos, ps \in PrecisionLists }
    \cup { <<[algo |-> algo_matmul, precisions |-> <<nm>>]>> : nm \in AllNames }

TwoExperiments ==
    { <<[algo |-> a, precisions |-> <<<<"f", "p", "3", "2">>>>],
        [algo |-> b, precisions |-> <<<<"T", "F", "3", "2">>, nm>>]>> :
        a \in SomeAlgos, b \in SomeAlgos,
        nm \in {<<"b", "f", "l", "o", "a", "t", "1", "6">>, <<"h", "a", "l", "f">>} }

DriverConfigs ==
    { [open_ok |-> TRUE, experiments |-> es] :
        es \in {<<>>} \cup OneExperiment \cup TwoExperiments }
    \cup { [open_ok |-> FALSE, experiments |-> <<>>] }

\* main after the configuration is loaded; the file at out_csv is absent or
\* left by an earlier run
DriverInit ==
    /\ io_pc = "main"
    /\ config \in DriverConfigs
    /\ csv_file \in {<<>>, <<"o", "l", "d", "\n">>}
    /\ header_written_ = FALSE /\ thrown = NoThrow /\ calls = <<>>
    /\ exp_i = 0 /\ entry_i = 0 /\ parsed = <<>> /\ run_i = 0

----------------------------------------------------------------------------
(* Specifications *)

\* the codec on every input of FloatInputs and every code
Init == CodecInit /\ NumberIdle /\ IterIdle /\ ReduceIdle /\ IoIdle
Spec == Init /\ [][CodecNext]_vars

\* chains of at most MaxOps operators on one P3109Number
InitNumber == NumberInit(StartCodes) /\ CodecIdle /\ IterIdle /\ ReduceIdle /\ IoIdle
SpecNumber == InitNumber /\ [][NumberNext]_vars

\* negations of a P3109Number holding any of the 256 codes
InitNegate == NumberInit(Codes) /\ CodecIdle /\ IterIdle /\ ReduceIdle /\ IoIdle
SpecNegate == InitNegate /\ [][NegateNext]_vars

\* chains of divisions, from every code
InitDivide == NumberInit(Codes) /\ CodecIdle /\ IterIdle /\ ReduceIdle /\ IoIdle
SpecDivide == InitDivide /\ [][DivideNext]_vars

\* one operator on every pair of codes under either flag, and chains
InitPair == NumberInit(Codes) /\ CodecIdle /\ IterIdle /\ ReduceIdle /\ IoIdle
SpecPair == InitPair /\ [][PairNext]_vars

\* runs of gradient_descent_quadratic and newton_raphson
InitIter == IterInit /\ CodecIdle /\ NumberIdle /\ ReduceIdle /\ IoIdle
SpecIter == InitIter /\ [][IterNext]_vars

\* calls of matmul_square and fir_filter, under either accumulation policy
PolicyOnly ==
    /\ accumulate_in_fp32_ \in BOOLEAN
    /\ value_ = 0 /\ wide = Zero(FALSE) /\ steps = 0 /\ orig = 0 /\ negs = 0
    /\ policy = "none" /\ other_value_ = 0
InitReduce == ReduceInit /\ CodecIdle /\ PolicyOnly /\ IterIdle /\ IoIdle
SpecReduce == InitReduce /\ [][ReduceNext]_vars

\* calls of the four kernels
InitKernels == InitReduce \/ InitIter
KernelsNext == ReduceNext \/ IterNext
SpecKernels == InitKernels /\ [][KernelsNext]_vars

\* runs of the two iterative kernels over double
InitDouble == IterDoubleInit /\ CodecIdle /\ NumberIdle /\ ReduceIdle /\ IoIdle
SpecDouble == InitDouble /\ [][IterDoubleNext]_vars

\* calls on one CsvWriter
InitCsv ==
    CsvInit /\ CodecIdle /\ NumberIdle /\ IterIdle /\ ReduceIdle
SpecCsv == InitCsv /\ [][CsvNext]_vars

\* runs of the experiment driver
InitDriver ==
    DriverInit /\ CodecIdle /\ NumberIdle /\ IterIdle /\ ReduceIdle
SpecDriver == InitDriver /\ [][DriverNext]_vars

\* A call runs to completion (single-threaded, no suspension points): weak
\* fairness of the loop exits and of the loop body.  The loop body is enabled
\* exactly when the loop guard holds, so its fairness,
\* <>[](ENABLED <<LoopBody>>_vars) => []<><<LoopBody>>_vars, is written with
\* the guard in place of ENABLED.
LoopBody ==
    GDConverged \/ GDStep \/ NewtonConverged \/ NewtonDerivativeZero \/ NewtonStep
LoopBodyEnabled == status = "running" /\ loop_guard(iter, inst)
LoopBodyFair == []<>(~LoopBodyEnabled) \/ []<><<LoopBody>>_vars
LoopExit == GDMaxIters \/ NewtonMaxIters
SpecIterFair == SpecIter /\ WF_vars(LoopExit) /\ LoopBodyFair

----------------------------------------------------------------------------
(* Properties of the codec *)

\* codes p3109_quantize returns for finite inputs: the two zero codes and
\* the codes with exponent field min_exp .. max_exp
CanonicalCodes ==
    {c \in Codes : c \in {0, 128} \/ exponent_of(c) \in 1 .. 6}

\* the values dequantize returns for the non-reserved codes
RepresentableValues == {p3109_dequantize(c) : c \in Codes \ ReservedCodes}
CanonicalValues == {p3109_dequantize(c) : c \in CanonicalCodes}

\* 2 * x for a finite x
Twice(v) == IF v.cls = "fin" THEN [v EXCEPT !.ex = @ + 1] ELSE v

\* |v - x| < |w - x| for finite v, w, x:  with v # w this is
\* (v - w) * (v + w - 2x) < 0
StrictlyCloser(v, w, xx) ==
    IF FLt(w, v) THEN FLt(FAdd(v, w), Twice(xx))
    ELSE IF FLt(v, w) THEN FLt(Twice(xx), FAdd(v, w))
    ELSE FALSE

\* 0.125, 0.25, 15.75 and 16: the flush and saturation thresholds
Eighth == Fin(FALSE, 1, -3)
Quarter == Fin(FALSE, 1, -2)
SaturationThreshold == Fin(FALSE, 63, -2)
Sixteen == Fin(FALSE, 1, 4)

\* C1 as stated: for every non-reserved code c (every code but 0xFF, 0x7F
\* and 0xFE), p3109_quantize(p3109_dequantize(c)) = c.
C1_AllNonReserved ==
    (pc = "recoded" /\ code \notin ReservedCodes) => code2 = code

\* C1 amended: for every zero code (0x00, 0x80) and every code with exponent
\* field 1..6, p3109_quantize(p3109_dequantize(c)) = c.
C1_CanonicalRoundTrip ==
    (pc = "recoded" /\ code \in CanonicalCodes) => code2 = code

C1_Witness ==
    /\ pc = "recoded"
    /\ exponent_of(code) = 6 /\ mantissa_of(code) = 15 /\ sign_of(code) = 1
    /\ code2 = code

\* C2 as stated: for every finite x, dequantize(quantize(x)) is the
\* representable value (a value of some non-reserved code) nearest to x: no
\* other representable value is strictly closer to x.
C2_NearestRepresentable ==
    (pc = "roundtrip" /\ isfinite(x)) =>
        \A v \in RepresentableValues : ~StrictlyCloser(v, y, x)

\* C2 amended: for every finite x with |x| <= 0.125 or |x| >= 0.25, no value
\* of a code that quantize produces for finite inputs (a zero code or a code
\* with exponent field 1..6) is strictly closer to x than
\* dequantize(quantize(x)); for 0.125 < |x| < 0.25 the result is the zero of
\* x's sign.
C2_NearestCanonical ==
    (pc = "roundtrip" /\ isfinite(x)) =>
        IF MagLt(Eighth, x) /\ MagLt(x, Quarter)
        THEN y = Zero(signbit(x))
        ELSE /\ y \in CanonicalValues
             /\ \A v \in CanonicalValues : ~StrictlyCloser(v, y, x)

C2_Witness ==
    /\ pc = "roundtrip"
    /\ x.cls = "fin" /\ y.cls = "fin"
    /\ ~FEq(x, y)
    /\ frexp_exp(y) = frexp_exp(x) + 1

\* C3: for every nonzero x (NaN aside, which has no sign), flushed and
\* saturated values included, the sign of dequantize(quantize(x)) is the
\* sign of x.
C3_SignPreserved ==
    (pc = "roundtrip" /\ ~isnan(x) /\ x.cls # "zero") =>
        ~isnan(y) /\ signbit(y) = signbit(x)

C3_Witness ==
    /\ pc = "roundtrip"
    /\ x.cls = "fin" /\ signbit(x) /\ MagLt(x, Quarter)
    /\ y = Zero(TRUE)

\* C4: the special values round-trip: NaN to the NaN code and back to NaN,
\* the two infinities to two distinct reserved codes and back, and the two
\* zeros to the zero code with the same sign bit and back.
C4_SpecialValues ==
    pc = "roundtrip" =>
        /\ isnan(x) => (code = 255 /\ isnan(y))
        /\ x = Inf(FALSE) => (code = 127 /\ y = Inf(FALSE))
        /\ x = Inf(TRUE) => (code = 254 /\ y = Inf(TRUE))
        /\ x = Zero(FALSE) => (code = 0 /\ y = Zero(FALSE))
        /\ x = Zero(TRUE) => (code = 128 /\ y = Zero(TRUE))

C4_Witness == pc = "roundtrip" /\ x = Inf(TRUE) /\ code # 127 /\ y = Inf(TRUE)

\* C5: a finite value whose biased exponent exceeds the maximum, directly
\* (|x| >= 16) or after the rounding carry (15.75 <= |x| < 16), quantizes to
\* the largest finite code of its sign (exponent field 6, mantissa 1111),
\* never to an infinity code.
C5_Saturates ==
    (pc = "quantized" /\ x.cls = "fin" /\ ~MagLt(x, SaturationThreshold)) =>
        /\ sign_of(code) = (IF signbit(x) THEN 1 ELSE 0)
        /\ exponent_of(code) = 6
        /\ mantissa_of(code) = 15
        /\ code \notin ReservedCodes

C5_Witness ==
    /\ pc = "quantized"
    /\ x.cls = "fin" /\ ~MagLt(x, SaturationThreshold) /\ MagLt(x, Sixteen)
    /\ code = 111

\* C6: a nonzero finite value of magnitude below 0.25 quantizes to the zero
\* code carrying its sign bit; no code with exponent field 0 and a nonzero
\* mantissa is produced.
C6_FlushToZero ==
    (pc = "quantized" /\ x.cls = "fin" /\ MagLt(x, Quarter)) =>
        code = (IF signbit(x) THEN 128 ELSE 0)

C6_Witness ==
    /\ pc = "quantized"
    /\ x.cls = "fin" /\ signbit(x) /\ frexp_exp(x) = -2
    /\ code = 128

\* C7 as stated: both infinities have the maximum exponent field and an
\* all-ones mantissa, NaN has an all-ones mantissa, a zero exponent field
\* decodes to signed zero and every other code to
\* (-1)^sign * (1 + mantissa/16) * 2^(exponent - 3).
C7_InfinitiesAllOnes ==
    pc = "decoded" =>
        /\ isinf(y) => (exponent_of(code) = 7 /\ mantissa_of(code) = 15)
        /\ isnan(y) => mantissa_of(code) = 15
        /\ (code \notin ReservedCodes /\ exponent_of(code) = 0)
              => y = Zero(sign_of(code) = 1)
        /\ (code \notin ReservedCodes /\ exponent_of(code) # 0)
              => y = Fin(sign_of(code) = 1, 16 + mantissa_of(code),
                         exponent_of(code) - 3 - 4)

\* C7 amended: +infinity is 0x7F (maximum exponent field, all-ones
\* mantissa), -infinity is 0xFE (sign bit set, maximum exponent field,
\* mantissa 1110) and NaN is 0xFF; every other code with exponent field 0
\* decodes to signed zero and every remaining code to
\* (-1)^sign * (1 + mantissa/16) * 2^(exponent - 3).
C7_Layout ==
    pc = "decoded" =>
        /\ y = Inf(FALSE) <=> code = 127
        /\ y = Inf(TRUE) <=> code = 254
        /\ isnan(y) <=> code = 255
        /\ (code \notin ReservedCodes /\ exponent_of(code) = 0)
              => y = Zero(sign_of(code) = 1)
        /\ (code \notin ReservedCodes /\ exponent_of(code) # 0)
              => y = Fin(sign_of(code) = 1, 16 + mantissa_of(code),
                         exponent_of(code) - 7)

C7_Witness ==
    /\ pc = "decoded"
    /\ code = 254 /\ y = Inf(TRUE)

----------------------------------------------------------------------------
(* Properties of P3109Number *)

\* C8 as stated: under the accumulate-in-working-precision policy a chain of
\* operators keeps its partial results in 32-bit and goes through the codec
\* once, at the end, so the chain's result is quantize of the 32-bit result
\* of the whole chain; under requantize-every-op each operator's result is
\* requantized at once.
C8_ChainRoundsOnce ==
    /\ (steps >= 1 /\ policy = "fp32") => value_ = p3109_quantize(wide)
    /\ (steps = 1 /\ policy = "requantize") =>
           value_ = p3109_quantize(p3109_dequantize(p3109_quantize(wide)))

\* C9 as stated: for every packed code a P3109Number holds, -v has the
\* opposite sign and the same magnitude, and (-(-v)).raw() = v.raw().
C9_NegationAllCodes ==
    /\ negs = 1 =>
         /\ p3109_dequantize(value_) = fneg(p3109_dequantize(orig))
         /\ (orig # 255 => sign_of(value_) # sign_of(orig))
    /\ negs = 2 => value_ = orig

\* C9 amended: for every code quantize can return for a value with a sign
\* (the zero codes, the codes with exponent field 1..6 and the two infinity
\* codes), -v has the opposite sign and the same magnitude, and
\* (-(-v)).raw() = v.raw(); the NaN code negates to itself.
C9_NegationCanonical ==
    /\ (orig \in CanonicalCodes \cup {127, 254}) =>
         /\ negs = 1 =>
              /\ p3109_dequantize(value_) = fneg(p3109_dequantize(orig))
              /\ sign_of(value_) # sign_of(orig)
         /\ negs = 2 => value_ = orig
    /\ (orig = 255 /\ negs \in {1, 2}) => value_ = 255

C9_Witness ==
    /\ negs = 2
    /\ orig = 184
    /\ value_ = orig

----------------------------------------------------------------------------
(* Properties of the iterative kernels *)

\* the stopping criterion of the running kernel at the iterate v
criterion(v) ==
    IF kernel = "gd" THEN gd_converged(inst, v) ELSE newton_converged(inst, v)

\* the criterion held at none of the first n iterates the loop has visited
NoneConverged(n) == \A i \in 1 .. n : ~criterion(trace[i])

\* a run returned converged = true at the first iterate that satisfies the
\* criterion, with that iterate and its index; a run that has not, has met
\* no iterate that satisfies it
ConvergedAtFirst ==
    /\ (status = "done" /\ result.converged) =>
         /\ result.iterations = Len(trace) - 1
         /\ result.x = trace[Len(trace)]
         /\ criterion(result.x)
         /\ NoneConverged(Len(trace) - 1)
    /\ (status = "running" \/ (status = "done" /\ ~result.converged)) =>
         NoneConverged(Len(trace))

ConvergedResult(v, n) == [x |-> v, iterations |-> n, converged |-> TRUE]

\* C10 as stated: in both kernels the criterion is evaluated on the current
\* iterate before the update, the run ends Converged at the first iteration
\* index at which it holds, returning that index and that iterate; an
\* initial point that satisfies the criterion yields converged = true,
\* iterations = 0 and the initial point.
C10_InitialAlwaysConverges ==
    /\ ConvergedAtFirst
    /\ (status = "done" /\ criterion(inst.initial)) =>
         result = ConvergedResult(inst.initial, 0)

\* C10 amended: as stated, but an initial point that satisfies the
\* criterion yields converged = true, iterations = 0 and the initial point
\* only when max_iters >= 1; with max_iters = 0 the criterion is never
\* evaluated and the result is converged = false, iterations = 0.
C10_ConvergedAtFirstIndex ==
    /\ ConvergedAtFirst
    /\ (status = "done" /\ criterion(inst.initial)) =>
         IF inst.max_iters >= 1
         THEN result = ConvergedResult(inst.initial, 0)
         ELSE result = [x |-> inst.initial, iterations |-> 0, converged |-> FALSE]

C10_Witness ==
    /\ kernel = "gd" /\ status = "done"
    /\ result.converged /\ result.iterations = 2
    /\ result.x # inst.initial

\* the derivative was zero at none of the first n iterates newton_raphson
\* has visited
NoZeroDerivative(n) ==
    kernel = "newton" => \A i \in 1 .. n : ~newton_dfx_zero(trace[i])

\* the loop body has run at most max_iters times, and a finished run reports
\* iterations <= max_iters, below max_iters when converged, and
\* {converged = false, iterations = max_iters} when no iterate met the
\* criterion or a zero derivative
WithinBudget ==
    /\ iter <= inst.max_iters
    /\ Len(trace) <= inst.max_iters
    /\ status = "done" =>
         /\ result.iterations <= inst.max_iters
         /\ result.converged => result.iterations < inst.max_iters
         /\ (NoneConverged(Len(trace)) /\ NoZeroDerivative(Len(trace))) =>
              (~result.converged /\ result.iterations = inst.max_iters)

\* C11: every run of gradient_descent_quadratic and newton_raphson
\* terminates after at most max_iters loop iterations; when the criterion is
\* never satisfied (and Newton meets no zero derivative) the result is
\* converged = false with iterations = max_iters; in every result
\* iterations <= max_iters, and converged = true implies
\* iterations < max_iters.
C11_TerminatesWithinBudget == <>(status = "done") /\ []WithinBudget

C11_Witness ==
    /\ kernel = "newton" /\ status = "done"
    /\ inst.max_iters = MaxIters /\ Len(trace) = MaxIters
    /\ ~result.converged /\ result.iterations = inst.max_iters

\* the iterates newton_raphson has evaluated with a zero derivative: each is
\* the last one evaluated, the run has returned it, unchanged, with its
\* index, and no update (no division fx / dfx) followed it
StopsAtZeroDerivative(i) ==
    /\ i = Len(trace)
    /\ status = "done"
    /\ result.x = trace[i]
    /\ result.iterations = i - 1

ZeroDerivativeAt == {i \in 1 .. Len(trace) : newton_dfx_zero(trace[i])}

\* C12 as stated: whenever the derivative is exactly zero at the current
\* iterate, newton_raphson stops at that iteration and returns the current
\* iterate with converged = false, without applying the update or dividing
\* by the zero derivative.
C12_ZeroDerivativeNotConverged ==
    kernel = "newton" =>
        \A i \in ZeroDerivativeAt :
            StopsAtZeroDerivative(i) /\ ~result.converged

\* C12 amended: whenever the derivative is exactly zero at the current
\* iterate, newton_raphson stops at that iteration and returns the current
\* iterate without applying the update or dividing by the zero derivative;
\* it reports converged = false unless |f(x)| < tol holds at that iterate,
\* which is tested first and reports converged = true.
C12_ZeroDerivativeStops ==
    kernel = "newton" =>
        \A i \in ZeroDerivativeAt :
            /\ StopsAtZeroDerivative(i)
            /\ result.converged <=> newton_converged(inst, trace[i])

C12_Witness ==
    /\ kernel = "newton" /\ status = "done"
    /\ result.iterations >= 1
    /\ newton_dfx_zero(result.x)
    /\ ~result.converged

----------------------------------------------------------------------------
(* C14: operator/= with a zero right operand, of either sign, is not      *)
(* guarded.  The new code is the quantization of the 32-bit quotient: the *)
(* +infinity code 0x7F or the -infinity code 0xFE for a nonzero finite or *)
(* an infinite dividend, negative exactly when the operand signs differ,   *)
(* and the NaN code 0xFF for a zero dividend.                              *)

\* the last step was a division by a code that dequantizes to a zero
DividedByZero == steps' = steps + 1 /\ p3109_dequantize(other_value_').cls = "zero"

C14_DivisionByZero ==
    [][DividedByZero =>
        LET lhs == p3109_dequantize(value_)
            rhs == p3109_dequantize(other_value_')
        IN /\ value_' = p3109_quantize(FDiv(lhs, rhs))
           /\ lhs.cls \in {"fin", "inf"} =>
                  value_' = (IF lhs.neg # rhs.neg THEN 254 ELSE 127)
           /\ lhs.cls = "zero" => value_' = 255
           /\ value_' \in {127, 254, 255}]_vars

\* -1.5 has been divided by +0.0 under the requantizing policy: -infinity
C14_Witness ==
    /\ steps = 1 /\ orig = 184 /\ other_value_ = 0
    /\ ~accumulate_in_fp32_ /\ value_ = 254 /\ wide = Inf(TRUE)
----------------------------------------------------------------------------
(* C15: matmul_square with the default options returns the row-major       *)
(* product: C[i * n + j] is the sum over k of A[i * n + k] * B[k * n + j]  *)
(* accumulated in increasing k in the arithmetic of T, and over doubles    *)
(* whose products and partial sums are exact it is the mathematical        *)
(* product: [[1, 2], [3, 4]] * [[5, 6], [7, 8]] = [[19, 22], [43, 50]].    *)

DefaultOptions == ~args.use_kahan /\ ~args.accumulate_in_fp32

\* the first k terms of row i of A times column j of B, summed in T
RECURSIVE DotT(_, _, _)
DotT(i, j, k) ==
    IF k = 0 THEN T_zero(args.T)
    ELSE T_add(args.T, DotT(i, j, k - 1),
               T_mul(args.T, args.A[i * args.n + k], args.B[(k - 1) * args.n + j + 1]))

\* twice the value of a double that is a multiple of 0.5, as an integer
TwiceOf(d) ==
    IF d.cls = "zero" THEN 0
    ELSE (IF d.neg THEN -1 ELSE 1) * BToInt(d.sig) * Pow2(d.ex + 1)

\* four times the sum of the first k products, in the integers
RECURSIVE DotExact(_, _, _)
DotExact(i, j, k) ==
    IF k = 0 THEN 0
    ELSE DotExact(i, j, k - 1)
         + TwiceOf(args.A[i * args.n + k]) * TwiceOf(args.B[(k - 1) * args.n + j + 1])

\* the double s / 4
DQuarters(s) ==
    IF s = 0 THEN DZero(FALSE)
    ELSE DFin(s < 0, BFromInt(IF s < 0 THEN -s ELSE s), -2)

C15_MatmulProduct ==
    (call = "matmul" /\ returned /\ DefaultOptions) =>
        /\ Len(out) = args.n * args.n
        /\ \A i \in 0 .. args.n - 1 : \A j \in 0 .. args.n - 1 :
              /\ out[i * args.n + j + 1] = DotT(i, j, args.n)
              /\ args.T = "double" =>
                    out[i * args.n + j + 1] = DQuarters(DotExact(i, j, args.n))
        /\ (args.T = "double" /\ args.n = 2
              /\ args.A = DHalves(<<2, 4, 6, 8>>)
              /\ args.B = DHalves(<<10, 12, 14, 16>>)) =>
                 out = DHalves(<<38, 44, 86, 100>>)

\* the call of the test has returned [[19, 22], [43, 50]]
C15_Witness ==
    /\ call = "matmul" /\ returned /\ DefaultOptions
    /\ args.T = "double" /\ args.n = 2
    /\ args.A = DHalves(<<2, 4, 6, 8>>)
    /\ out = <<DInt(19), DInt(22), DInt(43), DInt(50)>>
----------------------------------------------------------------------------
(* C16: fir_filter returns N = |x| samples.  With the default options y[n] *)
(* is the sum over the taps k < M with k <= n of h[k] * x[n - k], in       *)
(* increasing k in the arithmetic of T; over doubles whose products and    *)
(* sums are exact it is that sum in the integers, under every option.      *)
(* h = [0.5, 0.5] on x = [1, 2, 3, 4] gives [0.5, 1.5, 2.5, 3.5], and      *)
(* h = [1.0] returns x.                                                    *)

\* the partial sums of sample n in T: before any tap, and after each of the
\* first k taps that has a term
RECURSIVE FirSums(_, _)
FirSums(n, k) ==
    IF k = 0 THEN <<T_zero(args.T)>>
    ELSE LET s == FirSums(n, k - 1)
         IN IF k - 1 <= n
            THEN Append(s, T_add(args.T, s[Len(s)],
                                 T_mul(args.T, args.h[k], args.x[n - k + 2])))
            ELSE s

\* the terms of sample n among the first k taps, summed in T
FirT(n, k) == FirSums(n, k)[Len(FirSums(n, k))]

\* four times the same sum, in the integers
RECURSIVE FirExact(_, _)
FirExact(n, k) ==
    IF k = 0 THEN 0
    ELSE IF k - 1 <= n
         THEN FirExact(n, k - 1) + TwiceOf(args.h[k]) * TwiceOf(args.x[n - k + 2])
         ELSE FirExact(n, k - 1)

C16_FirConvolution ==
    (call = "fir" /\ returned) =>
        /\ Len(out) = Len(args.x)
        /\ DefaultOptions =>
              \A n \in 0 .. Len(args.x) - 1 : out[n + 1] = FirT(n, Len(args.h))
        /\ args.T = "double" =>
              /\ \A n \in 0 .. Len(args.x) - 1 :
                    out[n + 1] = DQuarters(FirExact(n, Len(args.h)))
              /\ (args.h = DHalves(<<1, 1>>) /\ args.x = DHalves(<<2, 4, 6, 8>>))
                    => out = DHalves(<<1, 3, 5, 7>>)
              /\ args.h = <<DInt(1)>> => out = args.x

\* the call of the test has returned [0.5, 1.5, 2.5, 3.5]
C16_Witness ==
    /\ call = "fir" /\ returned /\ DefaultOptions /\ args.T = "double"
    /\ args.h = DHalves(<<1, 1>>) /\ Len(args.x) = 4
    /\ out = DHalves(<<1, 3, 5, 7>>)
----------------------------------------------------------------------------
(* C17: with accumulate_in_fp32 set, matmul_square and fir_filter convert  *)
(* each operand to float, form every product and the running sum in float, *)
(* and convert the sum to T once per output.  With plain summation every   *)
(* output is T(s) for s the float sum of the float products (for the 8-bit *)
(* type: quantize of the sum of products of the dequantized operands);     *)
(* with Kahan summation it is T(s) for s the compensated float sum, which  *)
(* is the same output when every product of the cell is finite.            *)

\* the operands of the terms of output c, in the order of the loop
Terms(c) ==
    IF call = "matmul"
    THEN LET i == (c - 1) \div args.n
             j == (c - 1) % args.n
         IN [k \in 1 .. args.n |->
                <<args.A[i * args.n + k], args.B[(k - 1) * args.n + j + 1]>>]
    ELSE LET m == Min(Len(args.h), c)
         IN [k \in 1 .. m |-> <<args.h[k], args.x[c - k + 1]>>]

\* the float product of term t
FloatProduct(t) == FMul(to_float(args.T, t[1]), to_float(args.T, t[2]))

\* the float sums of the first k products: plain, and compensated as
\* <<sum, compensation>>
RECURSIVE PlainSum(_, _)
PlainSum(ts, k) ==
    IF k = 0 THEN Zero(FALSE)
    ELSE FAdd(PlainSum(ts, k - 1), FloatProduct(ts[k]))

RECURSIVE KahanSums(_, _)
KahanSums(ts, k) ==
    IF k = 0 THEN <<Zero(FALSE), Zero(FALSE)>>
    ELSE LET p == KahanSums(ts, k - 1)
             yv == FSub(FloatProduct(ts[k]), p[2])
             t == FAdd(p[1], yv)
         IN <<t, FSub(FSub(t, p[1]), yv)>>

AllProductsFinite(ts) == \A k \in 1 .. Len(ts) : isfinite(FloatProduct(ts[k]))

WideOutput(c) == from_float(args.T, PlainSum(Terms(c), Len(Terms(c))))

----------------------------------------------------------------------------
(* C18: for a dot product of same-sign terms under the 8-bit type (a cell  *)
(* of matmul_square or a sample of fir_filter, of up to MaxTaps terms),    *)
(* the output with accumulate_in_fp32 set is at least as close to the      *)
(* output of the same call over doubles as the output with the option      *)
(* clear, where every product and every partial sum is requantized.        *)

\* every product of the terms ts is finite and nonzero, all of one sign
SameSignTerms(ts) ==
    /\ Len(ts) >= 1
    /\ \A k \in 1 .. Len(ts) :
          /\ FloatProduct(ts[k]).cls = "fin"
          /\ FloatProduct(ts[k]).neg = FloatProduct(ts[1]).neg

\* output c of the call with the arguments in
OutputOf(in, c) ==
    IF call = "matmul"
    THEN matmul_cell(in, (c - 1) \div in.n, (c - 1) % in.n)
    ELSE fir_sample(in, c - 1)

\* the 8-bit arguments as doubles, and the call that gives the 64-bit truth
AsDoubles(v) == [idx \in 1 .. Len(v) |-> DFromFloat(p3109_dequantize(v[idx]))]
TruthArgs ==
    [args EXCEPT !.T = "double", !.accumulate_in_fp32 = FALSE,
                 !.A = AsDoubles(@), !.B = AsDoubles(@),
                 !.h = AsDoubles(@), !.x = AsDoubles(@)]
WideArgs == [args EXCEPT !.accumulate_in_fp32 = TRUE]

\* |v - truth| for an 8-bit output v; the relative error is this over |truth|
ErrorOf(v, truth) == Dfabs(DSub(DFromFloat(p3109_dequantize(v)), truth))

WideError(c) == ErrorOf(OutputOf(WideArgs, c), OutputOf(TruthArgs, c))
NarrowError(c) == ErrorOf(out[c], OutputOf(TruthArgs, c))

C18_WideNoWorse ==
    (call # "idle" /\ returned /\ args.T = "p3109" /\ ~args.accumulate_in_fp32) =>
        \A c \in 1 .. Len(out) :
            SameSignTerms(Terms(c)) =>
                /\ OutputOf(TruthArgs, c).cls = "fin"
                /\ ~DLt(NarrowError(c), WideError(c))

\* ten terms 0.3125 * 1.5625 = 0.48828125: the truth is 4.8828125, the wide
\* output is 5.0 and the requantized sum is 4.75, further away
C18_Witness ==
    /\ call = "fir" /\ returned /\ args.T = "p3109" /\ ~args.accumulate_in_fp32
    /\ ~args.use_kahan
    /\ Len(out) >= 10 /\ args.h[1] = 20 /\ args.x[1] = 57
    /\ SameSignTerms(Terms(10))
    /\ OutputOf(WideArgs, 10) = 84
    /\ out[10] = 83
    /\ DLt(WideError(10), NarrowError(10))
----------------------------------------------------------------------------
(* C13: NaN and infinite inputs.  Every kernel returns a result, and an    *)
(* output is non-finite whenever an operand of one of its terms is: a cell *)
(* of matmul_square for its row of A and column of B, a sample y[n] of     *)
(* fir_filter for the taps k <= n and the samples they meet.  A run of     *)
(* gradient_descent_quadratic with a non-finite Q, b or x0 and a run of    *)
(* newton_raphson with a non-finite initial guess return converged =       *)
(* false; the returned x is non-finite in every component that was so in   *)
(* x0, and in some component once one iteration has run.  A NaN stopping   *)
(* metric is never treated as converged.                                   *)

NonFiniteT(ty, v) ==
    IF ty = "double" THEN v.cls \in {"nan", "inf"} ELSE v \in ReservedCodes

SomeNonFinite(ty, vs) == \E idx \in 1 .. Len(vs) : NonFiniteT(ty, vs[idx])

\* the arguments of the call hold a NaN or an infinity
NonFiniteArgs ==
    \/ SomeNonFinite(args.T, args.A) \/ SomeNonFinite(args.T, args.B)
    \/ SomeNonFinite(args.T, args.h) \/ SomeNonFinite(args.T, args.x)

NonFiniteInst ==
    \/ SomeNonFinite("p3109", inst.Q) \/ SomeNonFinite("p3109", inst.b)
    \/ SomeNonFinite("p3109", inst.initial)

\* grad_norm, or abs_fx, is NaN at the iterate v
MetricIsNaN(v) ==
    IF kernel = "gd" THEN isnan(gd_sumsq(gd_gradient(inst, v), inst.dim))
    ELSE isnan(p3109_dequantize(newton_f(v[1])))

NaNMetricNotConverged ==
    (status = "done" /\ \E i \in 1 .. Len(trace) : MetricIsNaN(trace[i]))
        => ~result.converged

----------------------------------------------------------------------------
(* Properties of the iterative kernels over double *)

\* |v - t| <= d in the reals, for a double v, t = (-1)^neg * p / q and
\* d = dn / dd.  With v = (+/-) m * 2^-k this is
\* |q * dd * m -/+ p * dd * 2^k| <= dn * q * 2^k, decided on integers.
WithinOf(v, neg, p, q, dn, dd) ==
    /\ v.cls \in {"fin", "zero"}
    /\ LET k == IF v.cls = "fin" /\ v.ex < 0 THEN -v.ex ELSE 0
           a == IF v.cls = "zero" THEN <<>>
                ELSE BMul(BFromInt(q * dd), BShl(v.sig, v.ex + k))
           t == BShl(BFromInt(p * dd), k)
           same == v.cls = "zero" \/ v.neg = neg
           diff == IF ~same THEN BAdd(a, t)
                   ELSE IF BLt(a, t) THEN BSub(t, a)
                   ELSE BSub(a, t)
       IN ~BLt(BShl(BFromInt(dn * q), k), diff)

\* the check of the test: std::fabs(v - expected) > 1e-3 is false
TestAccepts(v, expected) ==
    LET err == Dfabs(DSub(v, expected))
    IN err.cls # "nan" /\ ~DLt(DLiteral(1, 1000), err)

\* the call of the test: opts.step_size = 0.05, opts.max_iters = 200,
\* opts.tol = 1e-8, under any choice of the contracted expressions
GDTestRun ==
    /\ kernel = "gd_double"
    /\ inst.Q = <<DInt(4), DInt(1), DInt(1), DInt(3)>>
    /\ inst.b = <<DInt(-1), DInt(2)>>
    /\ inst.initial = <<DZero(FALSE), DZero(FALSE)>>
    /\ inst.step_size = DLiteral(5, 100)
    /\ inst.max_iters = 200
    /\ inst.tol = DLiteral(1, 100000000)

\* C19: gradient_descent_quadratic over double with Q = [[4, 1], [1, 3]],
\* b = [-1, 2], x0 = [0, 0], step 0.05, tolerance 1e-8 and 200 iterations
\* returns converged with fewer than 200 iterations and each component of x
\* within 1e-3 of [5/11, -9/11], both in the reals and by the test's check.
C19_GradientDescentDouble ==
    (status = "done" /\ GDTestRun) =>
        /\ result.converged
        /\ result.iterations < 200
        /\ WithinOf(result.x[1], FALSE, 5, 11, 1, 1000)
        /\ WithinOf(result.x[2], TRUE, 9, 11, 1, 1000)
        /\ TestAccepts(result.x[1], DDiv(DInt(5), DInt(11)))
        /\ TestAccepts(result.x[2], DDiv(DInt(-9), DInt(11)))

\* the call of the test has returned, without contraction, after 152 passes
\* of the loop body and with the gradient norm below 1e-8 at the 153rd
C19_Witness ==
    /\ status = "done" /\ GDTestRun /\ inst.contract = {}
    /\ result.converged /\ result.iterations = 152 /\ Len(trace) = 153
    /\ result.x = xs /\ xs # inst.initial
    /\ gd_converged_double(inst, xs)
\* z * z * z
BCube(z) == BMul(BMul(z, z), z)

\* |v - cbrt(c)| <= 1 / dd in the reals, for a double v >= 1 / dd and a
\* positive integer c: (v - 1 / dd)^3 <= c <= (v + 1 / dd)^3.  With
\* v = m * 2^-k this is
\* (dd * m - 2^k)^3 <= c * dd^3 * 2^(3 * k) <= (dd * m + 2^k)^3.
WithinOfCubeRoot(v, c, dd) ==
    /\ v.cls = "fin" /\ ~v.neg
    /\ LET k == IF v.ex < 0 THEN -v.ex ELSE 0
           a == BMul(BFromInt(dd), BShl(v.sig, v.ex + k))
           u == BShl(<<1>>, k)
           target == BShl(BMul(BFromInt(c), BCube(BFromInt(dd))), 3 * k)
       IN /\ ~BLt(a, u)
          /\ ~BLt(target, BCube(BSub(a, u)))
          /\ ~BLt(BCube(BAdd(a, u)), target)

\* the call of the test: initial guess 1.0, newton_opts.max_iters = 30,
\* newton_opts.tol = 1e-10, with or without contraction of x * x * x - 2.0
NewtonTestRun ==
    /\ kernel = "newton_double"
    /\ inst.initial = <<DInt(1)>>
    /\ inst.max_iters = 30
    /\ inst.tol = D1em10

\* C20: newton_raphson over double for f(x) = x^3 - 2, f'(x) = 3x^2, initial
\* guess 1.0, tolerance 1e-10 and 30 iterations returns converged with a
\* root within 1e-8 of the real cube root of 2.
C20_NewtonDouble ==
    (status = "done" /\ NewtonTestRun) =>
        /\ result.converged
        /\ WithinOfCubeRoot(result.x[1], 2, 100000000)

\* the call of the test has returned, without contraction, after 5 updates
\* and with |f(x)| below 1e-10 at the sixth iterate
C20_Witness ==
    /\ status = "done" /\ NewtonTestRun /\ inst.contract = {}
    /\ result.converged /\ result.iterations = 5 /\ Len(trace) = 6
    /\ result.x = xs /\ xs # inst.initial
    /\ newton_converged_double(inst, xs)
----------------------------------------------------------------------------
(* Properties of the driver and of the CSV writer *)

\* the names of each format
FormatNames ==
    [FP64 |-> {<<"f", "p", "6", "4">>, <<"f", "l", "o", "a", "t", "6", "4">>},
     FP32 |-> {<<"f", "p", "3", "2">>, <<"f", "l", "o", "a", "t", "3", "2">>},
     TF32 |-> {<<"t", "f", "3", "2">>,
               <<"t", "e", "n", "s", "o", "r", "f", "l", "o", "a", "t", "3", "2">>},
     BF16 |-> {<<"b", "f", "1", "6">>, <<"b", "f", "l", "o", "a", "t", "1", "6">>},
     P3109_8 |-> {<<"p", "3", "1", "0", "9">>,
                  <<"p", "3", "1", "0", "9", "_", "8">>}]

\* c and d are one character, or the upper and the lower case of one letter
SameLetter(c, d) ==
    \/ c = d
    \/ \E l \in 1 .. Len(UpperCase) : {c, d} = {UpperCase[l], LowerCase[l]}

\* name is key up to the case of its letters
MatchesName(name, key) ==
    /\ Len(name) = Len(key)
    /\ \A l \in 1 .. Len(key) : SameLetter(name[l], key[l])

FormatsOf(name) ==
    { f \in DOMAIN FormatNames :
        \E key \in FormatNames[f] : MatchesName(name, key) }

\* the entry that parse_precisions is about to convert
AtEntry == io_pc = "parse" /\ entry_i <= Len(Experiment.precisions)
Entry == Experiment.precisions[entry_i]

\* C21: precision_from_string matches names without regard to case and maps
\* each recognized name to its format (fp64/float64, fp32/float32,
\* tf32/tensorfloat32, bf16/bfloat16, p3109/p3109_8): the format is appended
\* to the result of parse_precisions.  For every other name it throws the
\* unknown-format error carrying the name, no format is returned, and the
\* error leaves the driver, which writes nothing more and takes no further
\* step.
C21_NamesAndUnknownFormat ==
    [][ /\ AtEntry =>
            IF FormatsOf(Entry) # {}
            THEN /\ parsed' = Append(parsed, CHOOSE f \in FormatsOf(Entry) : TRUE)
                 /\ Cardinality(FormatsOf(Entry)) = 1
                 /\ io_pc' = "parse" /\ ~thrown'.throws
            ELSE /\ io_pc' = "terminated"
                 /\ thrown' = [throws |-> TRUE,
                               what |-> <<"Unknown precision string: ", Entry>>]
                 /\ parsed' = parsed /\ csv_file' = csv_file
        /\ io_pc = "terminated" => UNCHANGED vars ]_vars

\* "FLOAT32" was mapped to FP32 and the next entry, "fp16", ended the driver
\* with the unknown-format error
C21_Witness ==
    /\ io_pc = "terminated" /\ exp_i = 1 /\ Len(config.experiments) = 1
    /\ Experiment.precisions =
          <<<<"F", "L", "O", "A", "T", "3", "2">>, <<"f", "p", "1", "6">>>>
    /\ parsed = <<"FP32">>
    /\ thrown = [throws |-> TRUE,
                 what |-> <<"Unknown precision string: ", <<"f", "p", "1", "6">>>>]
\* The file read back as CSV: records end at a line feed and fields at a
\* comma outside quotes; inside quotes a doubled quote is one quote.
RECURSIVE ReadCsvFrom(_, _, _)
ReadCsvFrom(text, k, st) ==
    IF k > Len(text) THEN st
    ELSE LET c == text[k]
             add == [st EXCEPT !.field = Append(@, c)]
             endf == [st EXCEPT !.rec = Append(@, st.field), !.field = <<>>,
                                !.mode = "plain"]
             endr == [st EXCEPT !.recs = Append(@, Append(st.rec, st.field)),
                                !.rec = <<>>, !.field = <<>>, !.mode = "plain"]
         IN IF st.mode = "quoted"
            THEN ReadCsvFrom(text, k + 1,
                    IF c = "\"" THEN [st EXCEPT !.mode = "closing"] ELSE add)
            ELSE IF c = "\""
            THEN ReadCsvFrom(text, k + 1,
                    IF st.mode = "closing"
                    THEN [add EXCEPT !.mode = "quoted"]
                    ELSE [st EXCEPT !.mode = "quoted"])
            ELSE IF c = "," THEN ReadCsvFrom(text, k + 1, endf)
            ELSE IF c = "\n" THEN ReadCsvFrom(text, k + 1, endr)
            ELSE ReadCsvFrom(text, k + 1, add)

ReadCsv(text) ==
    ReadCsvFrom(text, 1,
                [mode |-> "plain", field |-> <<>>, rec |-> <<>>, recs |-> <<>>])

\* the fields joined by commas, as they are
RECURSIVE PlainJoin(_)
PlainJoin(values) ==
    IF values = <<>> THEN <<>>
    ELSE IF Len(values) = 1 THEN values[1]
    ELSE values[1] \o <<",">> \o PlainJoin(Tail(values))

\* a list of values as a record of a CSV file: an empty list is an empty
\* line, which reads as one empty field
AsRecord(values) == IF values = <<>> THEN <<<<>>>> ELSE values

HeaderCalls == { k \in 1 .. Len(calls) : calls[k].op = "write_header" }
FirstHeader == CHOOSE k \in HeaderCalls : \A j \in HeaderCalls : k <= j

\* the values of the rows written among the first n calls, in call order
RECURSIVE RowsWritten(_)
RowsWritten(n) ==
    IF n = 0 THEN <<>>
    ELSE IF calls[n].op = "write_row" /\ ~calls[n].ex.throws
    THEN Append(RowsWritten(n - 1), calls[n].arg)
    ELSE RowsWritten(n - 1)

\* the header columns and then the rows written, in call order
Written == <<calls[FirstHeader].arg>> \o RowsWritten(Len(calls))

RECURSIVE PlainLines(_)
PlainLines(rs) ==
    IF rs = <<>> THEN <<>>
    ELSE PlainJoin(rs[1]) \o <<"\n">> \o PlainLines(Tail(rs))

\* the writer was opened, with or without truncation; it found a file with
\* content
Opened == Len(calls) >= 1 /\ ~calls[1].ex.throws
Truncating == Opened /\ ~calls[1].arg[1]
AppendingToContent == Opened /\ calls[1].arg[1] /\ calls[1].arg[2] # <<>>

\* no field of the values written needs quotes
AllPlain ==
    \A k \in 1 .. Len(Written) :
        \A l \in 1 .. Len(Written[k]) : ~needs_quotes(Written[k][l])

\* C22 as stated: write_row before write_header raises and writes nothing;
\* write_header writes the header at most once per writer; the file of a
\* writer opened in truncate mode is the line of the comma-joined header
\* columns followed by the lines of the rows in call order.
C22_HeaderBeforeAnyRow ==
    [][ Len(calls') = Len(calls) + 1 =>
          LET last == calls'[Len(calls')]
          IN /\ (last.op = "write_row" /\ HeaderCalls = {}) =>
                    last.ex.throws /\ csv_file' = csv_file
             /\ (last.op = "write_header" /\ HeaderCalls # {}) =>
                    csv_file' = csv_file
             /\ (Truncating' /\ HeaderCalls' # {}) =>
                    csv_file' = PlainLines(Written') ]_vars

\* C22 amended: on a writer that did not find content to append to,
\* write_row before write_header raises and writes nothing; a writer opened in
\* append mode on a file with content takes the header as written: it
\* appends the line of a row after that content without a header, and
\* write_header writes nothing.
\* write_header writes at most once per writer.  The file of a writer
\* opened in truncate mode reads back, as CSV, as the header columns
\* followed by the rows in call order; each line is the comma-joined fields,
\* a field with a comma, a quote, a line feed or a carriage return being
\* quoted with its quotes doubled (so the file is the plain comma-joined
\* lines when no field needs quotes).
C22_HeaderBeforeRows ==
    [][ Len(calls') = Len(calls) + 1 =>
          LET last == calls'[Len(calls')]
          IN /\ (last.op = "write_row" /\ HeaderCalls = {}) =>
                    IF AppendingToContent
                    THEN /\ ~last.ex.throws
                         /\ Len(csv_file') > Len(csv_file)
                         /\ SubSeq(csv_file', 1, Len(csv_file)) = csv_file
                         /\ ReadCsv(SubSeq(csv_file', Len(csv_file) + 1,
                                           Len(csv_file'))).recs =
                                <<AsRecord(last.arg)>>
                    ELSE last.ex.throws /\ csv_file' = csv_file
             /\ (last.op = "write_header"
                   /\ (HeaderCalls # {} \/ AppendingToContent)) =>
                    csv_file' = csv_file
             /\ (Truncating' /\ HeaderCalls' # {}) =>
                    /\ ReadCsv(csv_file').recs =
                          [k \in 1 .. Len(Written') |-> AsRecord(Written'[k])]
                    /\ ReadCsv(csv_file').mode # "quoted"
                    /\ ReadCsv(csv_file').rec = <<>>
                    /\ ReadCsv(csv_file').field = <<>>
                    /\ AllPlain' => csv_file' = PlainLines(Written') ]_vars

\* a writer opened in truncate mode: write_row raised before the header,
\* then the header "a,b", "", """ and the row "1", "x\n" were written
C22_Witness ==
    /\ Len(calls) = 4 /\ Truncating
    /\ calls[2].op = "write_row" /\ calls[2].ex.throws
    /\ calls[3].op = "write_header"
    /\ calls[3].arg = <<<<"a", ",", "b">>, <<>>, <<"\"">>>>
    /\ calls[4].op = "write_row" /\ ~calls[4].ex.throws
    /\ calls[4].arg = <<<<"1">>, <<"x", "\n">>>>
    /\ csv_file = <<"\"", "a", ",", "b", "\"", ",", ",", "\"", "\"", "\"", "\"", "\n",
                    "1", ",", "\"", "x", "\n", "\"", "\n">>
\* the algorithm names the documentation lists as available
DocumentedAlgos ==
    { algo_matmul, algo_gd_quadratic, algo_newton, <<"f", "i", "r">> }

AtDispatch == io_pc = "dispatch" /\ exp_i <= Len(config.experiments)

\* C23: the driver accepts every documented algorithm name: an experiment
\* whose algo is matmul, gd_quadratic, newton or fir is run (its precisions
\* are parsed and its rows are written), and exactly the names outside that
\* set are rejected with "Unsupported algo: <name>".
C23_DocumentedAlgosAccepted ==
    [][ AtDispatch =>
          IF Experiment.algo \in DocumentedAlgos
          THEN io_pc' = "parse" /\ ~thrown'.throws
          ELSE /\ io_pc' = "terminated"
               /\ thrown' = [throws |-> TRUE,
                             what |-> <<"Unsupported algo: ", Experiment.algo>>] ]_vars
\* The values of the 8-bit type are multiples of 2^(1 - bias - mantissa_bits)
\* and their products multiples of its square: the number of units in 1.
UnitExp == 2 * (mantissa_bits + exponent_bias - 1)

\* a value of the type ty as a double
Widened(ty, v) ==
    CASE ty = "double" -> v
      [] ty = "float" -> DFromFloat(v)
      [] ty = "p3109" -> DFromFloat(p3109_dequantize(v))

\* v is finite and a number of units that fits the integers of the check
OnScale(ty, v) ==
    LET d == Widened(ty, v)
    IN \/ d.cls = "zero"
       \/ /\ d.cls = "fin"
          /\ d.ex + UnitExp >= 0
          /\ BBitLen(d.sig) + d.ex + UnitExp <= 30

\* the value of v in units
Units(ty, v) ==
    LET d == Widened(ty, v)
    IN IF d.cls = "zero" THEN 0
       ELSE (IF d.neg THEN -1 ELSE 1) * BToInt(d.sig) * Pow2(d.ex + UnitExp)

IsZeroT(ty, v) == Widened(ty, v).cls = "zero"

\* The compensated sum of the first k terms of ts as the claim states it, in
\* the type ty of the reduction: sum, compensation, whether every
\* intermediate value of every step so far is the exact result of its
\* operation, and whether the compensation was zero after every step.
RECURSIVE KahanSteps(_, _)
KahanSteps(ts, k) ==
    LET ty == sum_type(args)
    IN IF k = 0
       THEN [sum |-> T_zero(ty), compensation |-> T_zero(ty),
             exact |-> TRUE, zero |-> TRUE]
       ELSE LET p == KahanSteps(ts, k - 1)
                value == product(args, ts[k][1], ts[k][2])
                yv == T_sub(ty, value, p.compensation)
                t == T_add(ty, p.sum, yv)
                d == T_sub(ty, t, p.sum)
                cmp == T_sub(ty, d, yv)
            IN [sum |-> t, compensation |-> cmp,
                exact |->
                    /\ p.exact
                    /\ \A v \in {value, p.compensation, p.sum, yv, t, d, cmp} :
                          OnScale(ty, v)
                    /\ Units(ty, yv) = Units(ty, value) - Units(ty, p.compensation)
                    /\ Units(ty, t) = Units(ty, p.sum) + Units(ty, yv)
                    /\ Units(ty, d) = Units(ty, t) - Units(ty, p.sum)
                    /\ Units(ty, cmp) = Units(ty, d) - Units(ty, yv),
                zero |-> p.zero /\ IsZeroT(ty, cmp)]

KahanOf(c) == KahanSteps(Terms(c), Len(Terms(c)))

\* the same call with plain summation
PlainArgs == [args EXCEPT !.use_kahan = FALSE]

\* C24: in Kahan mode every output of matmul_square and fir_filter is the
\* sum after the steps y = value - compensation; t = sum + y;
\* compensation = (t - sum) - y; sum = t, in this order from sum = 0 and
\* compensation = 0, one step per term; and when every intermediate value of
\* an output is exact in the accumulation type, its compensation is zero
\* after every step and the output equals that of the plain running sum on
\* the same inputs.
C24_KahanSteps ==
    (returned /\ args.use_kahan) =>
        \A c \in 1 .. Len(out) :
            LET kh == KahanOf(c)
            IN /\ out[c] = stored(args, kh)
               /\ kh.exact =>
                     /\ kh.zero
                     /\ out[c] = OutputOf(PlainArgs, c)

\* fir_filter over the 8-bit type with Kahan summation, h = [0.5, 0.5] on
\* x = [1, 2, 3, 4]: every step is exact and y = [0.5, 1.5, 2.5, 3.5]
C24_Witness ==
    /\ call = "fir" /\ returned
    /\ args.T = "p3109" /\ args.use_kahan /\ ~args.accumulate_in_fp32
    /\ args.h = <<32, 32>> /\ args.x = <<48, 64, 72, 80>>
    /\ out = <<32, 56, 68, 76>>
    /\ \A c \in 1 .. Len(out) : KahanOf(c).exact /\ KahanOf(c).zero
OpNames == {"add", "sub", "mul", "div"}

\* the step is the operator op on the stored code and the operand
IsOperator(op) ==
    /\ wide' = float_op(op, wide, p3109_dequantize(other_value_'))
    /\ value_' = compound_assign(op, value_, other_value_', accumulate_in_fp32_)

\* the codes the operator stores for the 32-bit result r with the flag set
\* and with the flag cleared
StoredSet(r) == p3109_quantize(r)
StoredCleared(r) == p3109_quantize(p3109_dequantize(p3109_quantize(r)))

C26_QuantizeImage ==
    /\ pc \in {"quantized", "roundtrip", "requantized"} =>
          /\ code \in Codes
          /\ \/ code \in {0, 128}
             \/ exponent_of(code) \in 1 .. 6
             \/ code \in ReservedCodes /\ ~isfinite(x)
          /\ ~(exponent_of(code) = 0 /\ mantissa_of(code) # 0)
          /\ ~(exponent_of(code) = 7 /\ code \notin ReservedCodes)
          /\ code \in ReservedCodes <=> ~isfinite(x)
    /\ pc = "requantized" => code2 = code

\* 127 * 2^-6 = 1.984375 rounds up into the next exponent: 2.0, code 0x40,
\* which quantize returns again for the decoded value
C26_Witness ==
    /\ pc = "requantized"
    /\ x = Fin(FALSE, 127, -6)
    /\ code = 64 /\ y = Fin(FALSE, 1, 1) /\ code2 = 64
\* the finite inputs
FiniteInputs == { v \in FloatInputs : isfinite(v) }

\* An integer that orders the finite values of at most SigBits + 1
\* significant bits as < orders them: the sign, then the frexp exponent,
\* then the significand aligned to SigBits + 1 bits; 0 for both zeros.
Rank(v) ==
    IF v.cls = "zero" THEN 0
    ELSE LET w == BitLen(v.sig)
             r == (v.ex + w - FLT_TRUE_MIN_EXP + 1) * Pow2(SigBits + 1)
                  + v.sig * Pow2(SigBits + 1 - w)
         IN IF v.neg THEN -r ELSE r

\* every finite input with the value it comes back as, by rank
RoundTrips ==
    { <<Rank(v), Rank(p3109_dequantize(p3109_quantize(v)))>> : v \in FiniteInputs }

\* C27: the codec is monotone: for all finite x <= x2,
\* dequantize(quantize(x)) <= dequantize(quantize(x2)), across the flush
\* threshold, the rounding carries and the saturation bound.
C27_Monotone ==
    (pc = "roundtrip" /\ isfinite(x)) =>
        /\ <<Rank(x), Rank(y)>> \in RoundTrips
        /\ \A p \in RoundTrips : Rank(x) <= p[1] => Rank(y) <= p[2]

\* x = -63 * 2^-8 = -0.24609375, the largest magnitude of the model below
\* the flush threshold, comes back as -0.0, above the -0.25 that -0.25
\* comes back as and not above the 0.0 of 0.0
C27_Witness ==
    /\ pc = "roundtrip"
    /\ x = Fin(TRUE, 63, -8) /\ y = Zero(TRUE)
    /\ <<Rank(Fin(TRUE, 1, -2)), Rank(Fin(TRUE, 1, -2))>> \in RoundTrips
    /\ Rank(Fin(TRUE, 1, -2)) < Rank(x)
    /\ FLt(Fin(TRUE, 1, -2), y)
\* the step divides by a code that decodes to a zero
IsDivisionByZero ==
    LET rhs == p3109_dequantize(other_value_')
    IN rhs.cls = "zero" /\ wide' = FDiv(wide, rhs) /\ ~isfinite(wide')

\* C28: P3109Number arithmetic on finite values stays finite: on operands
\* whose codes decode to finite values, +, - and * store a code that decodes
\* to a finite value, and so does / unless the divisor is a zero; a result
\* beyond the range is the saturation code of its sign; an infinity or NaN
\* code is stored only when an operand is not finite or the divisor is a
\* zero.
C28_FiniteStaysFinite ==
    [][ steps' = steps + 1 =>
          LET lhs == p3109_dequantize(value_)
              rhs == p3109_dequantize(other_value_')
          IN /\ (isfinite(lhs) /\ isfinite(rhs) /\ ~IsDivisionByZero) =>
                    /\ value_' \notin ReservedCodes
                    /\ isfinite(p3109_dequantize(value_'))
             /\ value_' \in ReservedCodes =>
                    ~isfinite(lhs) \/ ~isfinite(rhs) \/ IsDivisionByZero
             /\ (steps = 0 /\ isfinite(wide')
                   /\ ~MagLt(wide', SaturationThreshold)) =>
                    value_' = saturate(signbit(wide')) ]_vars

\* 30 * 30 = 900 is stored as 15.5, code 0x6F
C28_Witness ==
    /\ steps = 1 /\ orig = 126 /\ other_value_ = 126
    /\ wide = Fin(FALSE, 225, 2)
    /\ value_ = 111
\* a run of gradient descent whose step size has a magnitude below 0.25
SmallStepRun == kernel = "gd" /\ MagLt(inst.step_size, Quarter)

\* every gradient of the run so far, the current one included, is finite
FiniteGradients ==
    \A k \in 1 .. Len(trace) + 1 :
        LET v == IF k <= Len(trace) THEN trace[k] ELSE xs
            g == gd_gradient(inst, v)
        IN \A i \in 1 .. inst.dim : isfinite(p3109_dequantize(g[i]))

\* x[i] as a number equals w[i] as a number, for every i
SameNumbers(v, w) ==
    \A i \in 1 .. inst.dim :
        FEq(p3109_dequantize(v[i]), p3109_dequantize(w[i]))

EndsAtZeroOrBudget ==
    status = "done" =>
        \/ result.converged /\ result.iterations = 0
        \/ ~result.converged /\ result.iterations = inst.max_iters

\* no x[i] of the initial vector has the exponent field 7
InitialInRange == \A i \in 1 .. inst.dim : exponent_of(inst.initial[i]) # 7

\* the initial vector through the codec
Requantized ==
    [i \in 1 .. inst.dim |-> p3109_quantize(p3109_dequantize(inst.initial[i]))]

\* C29 as stated: over the 8-bit type a step size of magnitude below 0.25
\* (the default 1e-2 included) is converted to zero; then, for finite
\* gradients, every update leaves each x[i] numerically equal to its initial
\* value and the run ends converged at iteration 0 or non-converged with
\* iterations = max_iters.
C29_ZeroStepNeverMoves ==
    SmallStepRun =>
        /\ t_from_double(inst.step_size) \in {0, 128}
        /\ FiniteGradients =>
              /\ SameNumbers(xs, inst.initial)
              /\ EndsAtZeroOrBudget

\* C29 amended: the step size is converted to a zero; then, for finite
\* gradients, every update leaves each x[i] numerically equal to its initial
\* value requantized, which is the initial value unless x[i] started from a
\* code with exponent field 7, and a run from an initial vector without
\* such codes ends converged at iteration 0 or non-converged with
\* iterations = max_iters.
C29_ZeroStepKeepsRequantized ==
    SmallStepRun =>
        /\ t_from_double(inst.step_size) \in {0, 128}
        /\ FiniteGradients =>
              /\ iter >= 1 => SameNumbers(xs, Requantized)
              /\ InitialInRange =>
                    /\ SameNumbers(xs, inst.initial)
                    /\ SameNumbers(Requantized, inst.initial)
                    /\ EndsAtZeroOrBudget

\* the default step size on Q = [2], b = [0.5], x0 = [1]: the gradient is
\* 2.5 at every iteration and the run ends at max_iters where it started
C29_Witness ==
    /\ status = "done" /\ SmallStepRun
    /\ inst.step_size = Fin(FALSE, 10737418, -30)
    /\ inst.Q = <<64>> /\ inst.b = <<32>> /\ inst.initial = <<48>>
    /\ inst.max_iters = MaxIters
    /\ result = [x |-> <<48>>, iterations |-> MaxIters, converged |-> FALSE]
    /\ Len(trace) = MaxIters
    /\ \A k \in 1 .. Len(trace) : gd_gradient(inst, trace[k]) = <<68>>
\* the iterates newton_raphson has evaluated where |f(x)| < tol holds and
\* the derivative is zero, and those where the derivative is zero and
\* |f(x)| < tol does not hold (|f(x)| >= tol, or f(x) is NaN)
BothHoldAt ==
    { i \in 1 .. Len(trace) :
        newton_converged(inst, trace[i]) /\ newton_dfx_zero(trace[i]) }
ZeroDerivativeOnlyAt ==
    { i \in 1 .. Len(trace) :
        ~newton_converged(inst, trace[i]) /\ newton_dfx_zero(trace[i]) }

\* C30: in newton_raphson the convergence test comes before the
\* zero-derivative guard: an iterate where |f(x)| < tol and f'(x) = 0 both
\* hold ends the run with converged = true; and a finished run is
\* non-converged with iterations < max_iters exactly when it met a zero
\* derivative at an iterate where |f(x)| < tol does not hold.
C30_ConvergenceTestedFirst ==
    kernel = "newton" =>
        /\ \A i \in BothHoldAt :
              /\ status = "done" /\ i = Len(trace)
              /\ result = [x |-> trace[i], iterations |-> i - 1,
                           converged |-> TRUE]
        /\ status = "done" =>
              ((~result.converged /\ result.iterations < inst.max_iters)
                  <=> ZeroDerivativeOnlyAt # {})

\* x^3 - 2 from 0 with tol = 4: |f(0)| = 2 < 4 and f'(0) = 0, and the run
\* returns converged at iteration 0
C30_Witness ==
    /\ kernel = "newton" /\ status = "done"
    /\ inst.initial = <<0>> /\ inst.tol = Fin(FALSE, 1, 2)
    /\ BothHoldAt = {1}
    /\ result = [x |-> <<0>>, iterations |-> 0, converged |-> TRUE]
====
